---- MODULE Spec2Model ----
(***************************************************************************)
(* Interaction state machine of the chain-offer viewer.                    *)
(*                                                                         *)
(* Two implementations of the runtime state live in the repository:        *)
(*   - the hook useChainOfferState (lib/hooks/useChainOfferState.ts), used *)
(*     by ChainOfferViewer;                                                *)
(*   - the context provider ChainOfferProvider                             *)
(*     (lib/hooks/ChainOfferContext.tsx).                                  *)
(* A behaviour mounts one of them (variable impl) over a specification     *)
(* document and then applies its operations with arbitrary arguments.      *)
(* Every React state update `setState(prev => f(prev))` is modelled by the *)
(* pure operator f; the values a useCallback closure reads from the last   *)
(* render are the record `rendered`.                                       *)
(***************************************************************************)
EXTENDS Integers, Sequences, FiniteSets, TLC

VARIABLES
    impl,            \* which implementation owns the runtime state
    chainOfferData,  \* the specification document (prop)
    componentState,  \* useChainOfferState: useState value
    rendered,        \* useChainOfferState: componentState of the last render
    isMounted,       \* useChainOfferState: isMounted.current
    timers,          \* useChainOfferState: pending setTimeout callbacks (FIFO)
    clickLog,        \* offerKeys of the handleButtonClick calls made so far
    callbackLog,     \* offerKeys the external onButtonClick was invoked with
    state,           \* ChainOfferProvider: useState value (AppState)
    lastOp,          \* the operation that produced the current state
    layout           \* ChainOfferViewer: sizes and the computed scale

vars ==
    << impl, chainOfferData, componentState, rendered, isMounted, timers,
       clickLog, callbackLog, state, lastOp, layout >>

hookVars ==
    << componentState, rendered, isMounted, timers, clickLog, callbackLog >>

----------------------------------------------------------------------------
(* Bounds of the model *)

\* number of handleButtonClick calls in one behaviour
MaxClicks == 1

----------------------------------------------------------------------------
(* Closed enumerations (types.ts) *)

OfferState == {"Locked", "Unlocked", "Claimed"}

HeaderState == {"active", "success", "fail"}

ButtonState == {"default", "disabled", "hover", "active", "claimed"}

OFFER_STATE_ORDER == <<"Locked", "Unlocked", "Claimed">>

HEADER_STATE_ORDER == <<"active", "success", "fail">>

\* Sample specification document: one offer with its button.
SampleData == [offers |-> <<"offer1">>, buttons |-> <<"offer1">>]

\* The keys operations are called with: the document's keys and a key
\* that no offer or button of the document carries.
UnknownKey == "ghost"

Keys == {"offer1", UnknownKey}

NoKey == ""

----------------------------------------------------------------------------
(* JavaScript helpers *)

\* Array.prototype.indexOf, 0-based, -1 when absent
indexOf(arr, x) ==
    IF \E i \in 1..Len(arr) : arr[i] = x
    THEN (CHOOSE i \in 1..Len(arr) :
              arr[i] = x /\ \A j \in 1..(i - 1) : arr[j] # x) - 1
    ELSE -1

\* arr[i] with a 0-based index
at(arr, i) == arr[i + 1]

\* { ...obj, [key]: value }
spread(obj, key, value) ==
    [k \in DOMAIN obj \cup {key} |-> IF k = key THEN value ELSE obj[k]]

\* obj[key] || dflt   (undefined and '' are falsy)
orDefault(obj, key, dflt) ==
    IF key \in DOMAIN obj /\ obj[key] # "" THEN obj[key] ELSE dflt

\* Object.keys(obj).reduce((acc, k) => { acc[k] = v; return acc }, {})
fillKeys(obj, v) == [k \in DOMAIN obj |-> v]

offerKeysOf(data) == {data.offers[i] : i \in DOMAIN data.offers}

buttonKeysOf(data) == {data.buttons[i] : i \in DOMAIN data.buttons}

----------------------------------------------------------------------------
(* useChainOfferState: pure parts *)

initializeOfferStates(data) ==
    [k \in {key \in offerKeysOf(data) : key # ""} |-> "Locked"]

\* faulty variant: buttons start disabled, like the button of a Locked offer
initializeButtonStates_disabled(data) ==
    [k \in {key \in buttonKeysOf(data) : key # ""} |-> "disabled"]

initializeButtonStates(data) ==
    [k \in {key \in buttonKeysOf(data) : key # ""} |-> "default"]

Hook_initialState(data) ==
    [offerStates  |-> initializeOfferStates(data),
     headerState  |-> "active",
     buttonStates |-> initializeButtonStates(data)]

\* getOfferState / getButtonState read the componentState of the render
\* that created the callback
getOfferState(rd, offerKey) == orDefault(rd.offerStates, offerKey, "Locked")

getButtonState(rd, offerKey) == orDefault(rd.buttonStates, offerKey, "default")

Hook_setOfferState(prev, offerKey, s) ==
    [prev EXCEPT !.offerStates = spread(@, offerKey, s)]

Hook_cycleOfferState(prev, rd, offerKey) ==
    LET currentState == getOfferState(rd, offerKey)
        currentIndex == indexOf(OFFER_STATE_ORDER, currentState)
        nextState    == at(OFFER_STATE_ORDER,
                           (currentIndex + 1) % Len(OFFER_STATE_ORDER))
    IN  Hook_setOfferState(prev, offerKey, nextState)

Hook_setHeaderState(prev, s) == [prev EXCEPT !.headerState = s]

\* faulty variant: steps backwards through HEADER_STATE_ORDER
Hook_cycleHeaderState_backwards(prev, rd) ==
    LET currentIndex == indexOf(HEADER_STATE_ORDER, rd.headerState)
        nextState    == at(HEADER_STATE_ORDER,
                           (currentIndex + 2) % Len(HEADER_STATE_ORDER))
    IN  Hook_setHeaderState(prev, nextState)

Hook_cycleHeaderState(prev, rd) ==
    LET currentIndex == indexOf(HEADER_STATE_ORDER, rd.headerState)
        nextState    == at(HEADER_STATE_ORDER,
                           (currentIndex + 1) % Len(HEADER_STATE_ORDER))
    IN  Hook_setHeaderState(prev, nextState)

Hook_setButtonState(prev, offerKey, s) ==
    [prev EXCEPT !.buttonStates = spread(@, offerKey, s)]

\* faulty variant: only the active state blocks the hover transition
Hook_handleButtonMouseEnter_fromAny(prev, rd, offerKey) ==
    IF getButtonState(rd, offerKey) # "active"
    THEN Hook_setButtonState(prev, offerKey, "hover")
    ELSE prev

Hook_handleButtonMouseEnter(prev, rd, offerKey) ==
    IF getButtonState(rd, offerKey) = "default"
    THEN Hook_setButtonState(prev, offerKey, "hover")
    ELSE prev

Hook_handleButtonMouseLeave(prev, rd, offerKey) ==
    IF getButtonState(rd, offerKey) = "hover"
    THEN Hook_setButtonState(prev, offerKey, "default")
    ELSE prev

\* faulty variant: a button click also claims the offer
Hook_handleButtonClick_claims(prev, offerKey) ==
    [prev EXCEPT !.buttonStates = spread(@, offerKey, "active"),
                 !.offerStates  = spread(@, offerKey, "Claimed")]

\* the synchronous state write of handleButtonClick
Hook_handleButtonClick(prev, offerKey) ==
    Hook_setButtonState(prev, offerKey, "active")

\* faulty variant: the revert is never written
Hook_timerCallback_noRevert(prev, mounted, offerKey) == prev

\* faulty variant: the mounted flag is not consulted
Hook_timerCallback_unguarded(prev, mounted, offerKey) ==
    Hook_setButtonState(prev, offerKey, "default")

\* faulty variant: the revert writes the wrong state
Hook_timerCallback_toDisabled(prev, mounted, offerKey) ==
    IF mounted THEN Hook_setButtonState(prev, offerKey, "disabled") ELSE prev

\* the callback handed to setTimeout by handleButtonClick
Hook_timerCallback(prev, mounted, offerKey) ==
    IF mounted THEN Hook_setButtonState(prev, offerKey, "default") ELSE prev

Hook_resetAllStates(data) == Hook_initialState(data)

----------------------------------------------------------------------------
(* ChainOfferProvider: pure parts *)

Provider_initialState(data) ==
    [offerStates  |-> [k \in offerKeysOf(data) |-> "Locked"],
     headerState  |-> "active",
     buttonStates |-> [k \in buttonKeysOf(data) |-> "default"],
     isAnimating  |-> FALSE]

\* faulty variant: setting an offer also writes the button of the same key
Provider_setOfferState_synced(prev, offerKey, newState) ==
    [prev EXCEPT !.offerStates  = spread(@, offerKey, newState),
                 !.buttonStates = spread(@, offerKey, "default")]

Provider_setOfferState(prev, offerKey, newState) ==
    [prev EXCEPT !.offerStates = spread(@, offerKey, newState)]

\* faulty variant: the index is not advanced past the last state's wrap-around
Provider_cycleOfferState_skip(prev, offerKey) ==
    LET offerStates  == <<"Locked", "Unlocked", "Claimed">>
        currentState == orDefault(prev.offerStates, offerKey, "Locked")
        currentIndex == indexOf(offerStates, currentState)
        nextIndex    == (currentIndex + 2) % Len(offerStates)
        nextState    == at(offerStates, nextIndex)
        nextButtonState ==
            IF nextState = "Unlocked" THEN "default"
            ELSE IF nextState = "Claimed" THEN "claimed"
            ELSE "disabled"
    IN  [prev EXCEPT !.offerStates  = spread(@, offerKey, nextState),
                     !.buttonStates = spread(@, offerKey, nextButtonState)]

\* faulty variant: the button of the offer is not synchronised
Provider_cycleOfferState_noSync(prev, offerKey) ==
    LET offerStates  == <<"Locked", "Unlocked", "Claimed">>
        currentState == orDefault(prev.offerStates, offerKey, "Locked")
        currentIndex == indexOf(offerStates, currentState)
        nextIndex    == (currentIndex + 1) % Len(offerStates)
        nextState    == at(offerStates, nextIndex)
    IN  [prev EXCEPT !.offerStates = spread(@, offerKey, nextState)]

Provider_cycleOfferState(prev, offerKey) ==
    LET offerStates  == <<"Locked", "Unlocked", "Claimed">>
        currentState == orDefault(prev.offerStates, offerKey, "Locked")
        currentIndex == indexOf(offerStates, currentState)
        nextIndex    == (currentIndex + 1) % Len(offerStates)
        nextState    == at(offerStates, nextIndex)
        nextButtonState ==
            IF nextState = "Unlocked" THEN "default"
            ELSE IF nextState = "Claimed" THEN "claimed"
            ELSE "disabled"
    IN  [prev EXCEPT !.offerStates  = spread(@, offerKey, nextState),
                     !.buttonStates = spread(@, offerKey, nextButtonState)]

Provider_setHeaderState(prev, newState) == [prev EXCEPT !.headerState = newState]

Provider_cycleHeaderState(prev) ==
    LET headerStates == <<"active", "success", "fail">>
        currentIndex == indexOf(headerStates, prev.headerState)
        nextIndex    == (currentIndex + 1) % Len(headerStates)
    IN  [prev EXCEPT !.headerState = at(headerStates, nextIndex)]

Provider_setButtonState(prev, offerKey, newState) ==
    [prev EXCEPT !.buttonStates = spread(@, offerKey, newState)]

Provider_handleButtonMouseEnter(prev, offerKey) ==
    LET currentBtnState == orDefault(prev.buttonStates, offerKey, "default")
    IN  IF currentBtnState = "default"
        THEN [prev EXCEPT !.buttonStates = spread(@, offerKey, "hover")]
        ELSE prev

Provider_handleButtonMouseLeave(prev, offerKey) ==
    IF offerKey \in DOMAIN prev.buttonStates
       /\ prev.buttonStates[offerKey] \in {"hover", "active"}
    THEN [prev EXCEPT !.buttonStates = spread(@, offerKey, "default")]
    ELSE prev

Provider_handleButtonMouseDown(prev, offerKey) ==
    LET currentBtnState == orDefault(prev.buttonStates, offerKey, "default")
    IN  IF currentBtnState \in {"default", "hover"}
        THEN [prev EXCEPT !.buttonStates = spread(@, offerKey, "active")]
        ELSE prev

\* faulty variant: releasing the mouse returns the button to default
Provider_handleButtonMouseUp_toDefault(prev, offerKey) ==
    IF offerKey \in DOMAIN prev.buttonStates
       /\ prev.buttonStates[offerKey] = "active"
    THEN [prev EXCEPT !.buttonStates = spread(@, offerKey, "default")]
    ELSE prev

Provider_handleButtonMouseUp(prev, offerKey) ==
    IF offerKey \in DOMAIN prev.buttonStates
       /\ prev.buttonStates[offerKey] = "active"
    THEN [prev EXCEPT !.buttonStates = spread(@, offerKey, "hover")]
    ELSE prev

Provider_setIsAnimating(prev, isAnimating) ==
    [prev EXCEPT !.isAnimating = isAnimating]

Provider_finishAnimation(prev) == [prev EXCEPT !.isAnimating = FALSE]

Provider_resetAllStates(prev) ==
    [prev EXCEPT !.offerStates  = fillKeys(prev.offerStates, "Locked"),
                 !.headerState  = "active",
                 !.buttonStates = fillKeys(prev.buttonStates, "default"),
                 !.isAnimating  = FALSE]

----------------------------------------------------------------------------
(* Initial state: one implementation mounted over the document *)

Op(name, key) == [op |-> name, key |-> key]

\* no layout has been computed
NoLayout == "none"

Init ==
    /\ impl \in {"hook", "provider"}
    /\ chainOfferData = SampleData
    /\ componentState = Hook_initialState(chainOfferData)
    /\ rendered = componentState
    /\ isMounted = TRUE
    /\ timers = <<>>
    /\ clickLog = <<>>
    /\ callbackLog = <<>>
    /\ state = Provider_initialState(chainOfferData)
    /\ lastOp = Op("mount", NoKey)
    /\ layout = NoLayout

----------------------------------------------------------------------------
(* useChainOfferState: operations.  Each call is one event; React commits  *)
(* the update and re-renders before the next event is delivered, so the    *)
(* closures of the next call see the committed state.                      *)

HookLive == impl = "hook" /\ isMounted

\* commit `next` and re-render
HookCommit(next, name, key) ==
    /\ componentState' = next
    /\ rendered' = next
    /\ lastOp' = Op(name, key)
    /\ UNCHANGED << layout, impl, chainOfferData, isMounted, state >>

setOfferState_hook(k, s) ==
    /\ HookLive
    /\ HookCommit(Hook_setOfferState(componentState, k, s), "setOfferState", k)
    /\ UNCHANGED << timers, clickLog, callbackLog >>

cycleOfferState_hook(k) ==
    /\ HookLive
    /\ HookCommit(Hook_cycleOfferState(componentState, rendered, k),
                  "cycleOfferState", k)
    /\ UNCHANGED << timers, clickLog, callbackLog >>

setHeaderState_hook(s) ==
    /\ HookLive
    /\ HookCommit(Hook_setHeaderState(componentState, s), "setHeaderState", NoKey)
    /\ UNCHANGED << timers, clickLog, callbackLog >>

cycleHeaderState_hook ==
    /\ HookLive
    /\ HookCommit(Hook_cycleHeaderState(componentState, rendered),
                  "cycleHeaderState", NoKey)
    /\ UNCHANGED << timers, clickLog, callbackLog >>

setButtonState_hook(k, s) ==
    /\ HookLive
    /\ HookCommit(Hook_setButtonState(componentState, k, s), "setButtonState", k)
    /\ UNCHANGED << timers, clickLog, callbackLog >>

handleButtonMouseEnter_hook(k) ==
    /\ HookLive
    /\ HookCommit(Hook_handleButtonMouseEnter(componentState, rendered, k),
                  "handleButtonMouseEnter", k)
    /\ UNCHANGED << timers, clickLog, callbackLog >>

handleButtonMouseLeave_hook(k) ==
    /\ HookLive
    /\ HookCommit(Hook_handleButtonMouseLeave(componentState, rendered, k),
                  "handleButtonMouseLeave", k)
    /\ UNCHANGED << timers, clickLog, callbackLog >>

\* faulty variant: the external callback is not invoked
handleButtonClick_noCallback(k) ==
    /\ HookLive
    /\ Len(clickLog) < MaxClicks
    /\ HookCommit(Hook_handleButtonClick(componentState, k), "handleButtonClick", k)
    /\ timers' = Append(timers, k)
    /\ clickLog' = Append(clickLog, k)
    /\ callbackLog' = callbackLog

\* handleButtonClick(k, () => onButtonClick(k)): state write, setTimeout,
\* then the external callback, all inside the click handler
handleButtonClick(k) ==
    /\ HookLive
    /\ Len(clickLog) < MaxClicks
    /\ HookCommit(Hook_handleButtonClick(componentState, k), "handleButtonClick", k)
    /\ timers' = Append(timers, k)
    /\ clickLog' = Append(clickLog, k)
    /\ callbackLog' = Append(callbackLog, k)

\* the oldest pending timeout expires (all delays are 150 ms)
TimerFire ==
    /\ impl = "hook"
    /\ timers # <<>>
    /\ LET k == Head(timers)
           next == Hook_timerCallback(componentState, isMounted, k)
       IN  /\ componentState' = next
           /\ rendered' = next
           /\ lastOp' = Op("timer", k)
    /\ timers' = Tail(timers)
    /\ UNCHANGED << layout, impl, chainOfferData, isMounted, state, clickLog, callbackLog >>

resetAllStates_hook ==
    /\ HookLive
    /\ HookCommit(Hook_resetAllStates(chainOfferData), "resetAllStates", NoKey)
    /\ UNCHANGED << timers, clickLog, callbackLog >>

\* effect cleanup of the owning component
Unmount ==
    /\ HookLive
    /\ isMounted' = FALSE
    /\ lastOp' = Op("unmount", NoKey)
    /\ UNCHANGED << layout, impl, chainOfferData, componentState, rendered, timers,
                    clickLog, callbackLog, state >>

----------------------------------------------------------------------------
(* ChainOfferProvider: operations *)

ProviderCommit(next, name, key) ==
    /\ impl = "provider"
    /\ state' = next
    /\ lastOp' = Op(name, key)
    /\ UNCHANGED << layout, impl, chainOfferData >>
    /\ UNCHANGED hookVars

setOfferState(k, s) ==
    ProviderCommit(Provider_setOfferState(state, k, s), "setOfferState", k)

cycleOfferState(k) ==
    ProviderCommit(Provider_cycleOfferState(state, k), "cycleOfferState", k)

setHeaderState(s) ==
    ProviderCommit(Provider_setHeaderState(state, s), "setHeaderState", NoKey)

cycleHeaderState ==
    ProviderCommit(Provider_cycleHeaderState(state), "cycleHeaderState", NoKey)

setButtonState(k, s) ==
    ProviderCommit(Provider_setButtonState(state, k, s), "setButtonState", k)

handleButtonMouseEnter(k) ==
    ProviderCommit(Provider_handleButtonMouseEnter(state, k),
                   "handleButtonMouseEnter", k)

handleButtonMouseLeave(k) ==
    ProviderCommit(Provider_handleButtonMouseLeave(state, k),
                   "handleButtonMouseLeave", k)

handleButtonMouseDown(k) ==
    ProviderCommit(Provider_handleButtonMouseDown(state, k),
                   "handleButtonMouseDown", k)

handleButtonMouseUp(k) ==
    ProviderCommit(Provider_handleButtonMouseUp(state, k),
                   "handleButtonMouseUp", k)

setIsAnimating(b) ==
    ProviderCommit(Provider_setIsAnimating(state, b), "setIsAnimating", NoKey)

finishAnimation ==
    ProviderCommit(Provider_finishAnimation(state), "finishAnimation", NoKey)

resetAllStates ==
    ProviderCommit(Provider_resetAllStates(state), "resetAllStates", NoKey)

----------------------------------------------------------------------------

HookNext ==
    \/ \E k \in Keys, s \in OfferState : setOfferState_hook(k, s)
    \/ \E k \in Keys : cycleOfferState_hook(k)
    \/ \E s \in HeaderState : setHeaderState_hook(s)
    \/ cycleHeaderState_hook
    \/ \E k \in Keys, s \in ButtonState : setButtonState_hook(k, s)
    \/ \E k \in Keys : handleButtonMouseEnter_hook(k)
    \/ \E k \in Keys : handleButtonMouseLeave_hook(k)
    \/ \E k \in Keys : handleButtonClick(k)
    \/ TimerFire
    \/ resetAllStates_hook
    \/ Unmount

ProviderNext ==
    \/ \E k \in Keys, s \in OfferState : setOfferState(k, s)
    \/ \E k \in Keys : cycleOfferState(k)
    \/ \E s \in HeaderState : setHeaderState(s)
    \/ cycleHeaderState
    \/ \E k \in Keys, s \in ButtonState : setButtonState(k, s)
    \/ \E k \in Keys : handleButtonMouseEnter(k)
    \/ \E k \in Keys : handleButtonMouseLeave(k)
    \/ \E k \in Keys : handleButtonMouseDown(k)
    \/ \E k \in Keys : handleButtonMouseUp(k)
    \/ \E b \in BOOLEAN : setIsAnimating(b)
    \/ finishAnimation
    \/ resetAllStates

Next == HookNext \/ ProviderNext

Spec == Init /\ [][Next]_vars

----------------------------------------------------------------------------
(* The runtime state of the mounted implementation *)

offerStates == IF impl = "hook" THEN componentState.offerStates ELSE state.offerStates

headerState == IF impl = "hook" THEN componentState.headerState ELSE state.headerState

buttonStates == IF impl = "hook" THEN componentState.buttonStates ELSE state.buttonStates

\* one call of cycleOfferState / cycleHeaderState of the mounted
\* implementation, followed by the re-render
cycleOfferOnce(i, s, k) ==
    IF i = "hook" THEN Hook_cycleOfferState(s, s, k) ELSE Provider_cycleOfferState(s, k)

cycleHeaderOnce(i, s) ==
    IF i = "hook" THEN Hook_cycleHeaderState(s, s) ELSE Provider_cycleHeaderState(s)

runtimeState == IF impl = "hook" THEN componentState ELSE state

InitialOfferKeys == offerKeysOf(chainOfferData)

InitialButtonKeys == buttonKeysOf(chainOfferData)

----------------------------------------------------------------------------
(* C1: for every offerKey of the initialized state, one cycleOfferState(k) *)
(* moves the offer Locked -> Unlocked -> Claimed -> Locked, and three      *)
(* applications return offerStates[k] to its starting value, in the hook   *)
(* and in the provider.                                                    *)

C1_Successor == [Locked |-> "Unlocked", Unlocked |-> "Claimed", Claimed |-> "Locked"]

C1_OneStep ==
    (lastOp'.op = "cycleOfferState" /\ lastOp'.key \in InitialOfferKeys)
        => offerStates'[lastOp'.key] = C1_Successor[offerStates[lastOp'.key]]

C1_ThreeTimes ==
    \A k \in InitialOfferKeys :
        LET s1 == cycleOfferOnce(impl, runtimeState, k)
            s2 == cycleOfferOnce(impl, s1, k)
            s3 == cycleOfferOnce(impl, s2, k)
        IN  /\ s1.offerStates[k] # runtimeState.offerStates[k]
            /\ s2.offerStates[k] # runtimeState.offerStates[k]
            /\ s3.offerStates[k] = runtimeState.offerStates[k]

C1_OfferCycle == [][C1_OneStep]_vars /\ []C1_ThreeTimes

C1_Witness ==
    /\ lastOp = Op("cycleOfferState", "offer1")
    /\ offerStates["offer1"] = "Locked"

(* C2: cycleHeaderState moves headerState active -> success -> fail ->     *)
(* active; three consecutive applications return it to the start.          *)

C2_Successor == [active |-> "success", success |-> "fail", fail |-> "active"]

C2_OneStep ==
    lastOp'.op = "cycleHeaderState" => headerState' = C2_Successor[headerState]

C2_ThreeTimes ==
    LET s1 == cycleHeaderOnce(impl, runtimeState)
        s2 == cycleHeaderOnce(impl, s1)
        s3 == cycleHeaderOnce(impl, s2)
    IN  /\ s1.headerState # runtimeState.headerState
        /\ s2.headerState # runtimeState.headerState
        /\ s3.headerState = runtimeState.headerState

C2_HeaderCycle == [][C2_OneStep]_vars /\ []C2_ThreeTimes

C2_Witness ==
    /\ lastOp = Op("cycleHeaderState", NoKey)
    /\ headerState = "active"

(* C3: in every reachable state the key set of offerStates equals the      *)
(* offerKeys of the specification and the key set of buttonStates equals   *)
(* the offerKeys of its buttons: no entry is added or removed after        *)
(* initialization, whatever keys the operations are called with.           *)

C3_KeySetsFixed ==
    /\ DOMAIN offerStates = InitialOfferKeys
    /\ DOMAIN buttonStates = InitialButtonKeys

(* C4: for a key that is not in the initialized state map every keyed      *)
(* operation follows the same policy and creates no phantom entry.  The    *)
(* code has no unknown-key report, so the uniform policy is the no-op:     *)
(* the whole runtime state is unchanged.                                   *)

OfferKeyedOps == {"setOfferState", "cycleOfferState"}

ButtonKeyedOps ==
    {"setButtonState", "handleButtonMouseEnter", "handleButtonMouseLeave",
     "handleButtonMouseDown", "handleButtonMouseUp", "handleButtonClick"}

C4_UnknownKeyStep ==
    \/ lastOp'.op \in OfferKeyedOps /\ lastOp'.key \notin InitialOfferKeys
    \/ lastOp'.op \in ButtonKeyedOps /\ lastOp'.key \notin InitialButtonKeys

C4_UnknownKeyNoOp == [][C4_UnknownKeyStep => runtimeState' = runtimeState]_vars

(* C5: in the hook, right after handleButtonClick(k) on a button in state  *)
(* default the state is active; while the hook stays mounted, the pending  *)
(* feedback timer eventually expires and puts the button back to default.  *)

C5_ClickStep ==
    (/\ lastOp'.op = "handleButtonClick"
     /\ lastOp'.key \in DOMAIN componentState.buttonStates
     /\ componentState.buttonStates[lastOp'.key] = "default")
        => componentState'.buttonStates[lastOp'.key] = "active"

C5_TimerPending(k) ==
    impl = "hook" /\ isMounted /\ \E i \in DOMAIN timers : timers[i] = k

C5_Reverted(k) ==
    \/ ~isMounted
    \/ /\ lastOp = Op("timer", k)
       /\ k \in DOMAIN componentState.buttonStates
       /\ componentState.buttonStates[k] = "default"

C5_ClickTransient ==
    /\ [][C5_ClickStep]_vars
    /\ \A k \in Keys : C5_TimerPending(k) ~> C5_Reverted(k)

C5_Witness ==
    /\ clickLog = <<"offer1">>
    /\ lastOp = Op("timer", "offer1")
    /\ isMounted
    /\ componentState.buttonStates["offer1"] = "default"

(* C6: when the owning component is unmounted before a click's feedback    *)
(* timer expires, the timer callback writes nothing: after teardown the    *)
(* component state never changes.                                          *)

C6_NoWriteAfterTeardown ==
    [][(~isMounted \/ ~isMounted') => componentState' = componentState]_vars

C6_Witness ==
    /\ lastOp = Op("timer", "offer1")
    /\ ~isMounted
    /\ timers = <<>>
    /\ componentState.buttonStates["offer1"] = "active"

(* C7: every button click invokes the external click callback exactly once *)
(* inside the click handling, with the offerKey of the clicked button,     *)
(* whether or not the revert happens; no other operation invokes it.       *)

C7_CallbackStep ==
    /\ lastOp'.op = "handleButtonClick"
           => callbackLog' = Append(callbackLog, lastOp'.key)
    /\ lastOp'.op # "handleButtonClick" => callbackLog' = callbackLog

C7_CallbackOncePerClick ==
    /\ [](callbackLog = clickLog)
    /\ [][C7_CallbackStep]_vars

C7_Witness ==
    /\ callbackLog = <<"offer1">>
    /\ ~isMounted
    /\ lastOp = Op("timer", "offer1")

(* C8: handleButtonMouseEnter(k) changes button k from default to hover    *)
(* and changes nothing from hover, active, disabled or claimed, in the     *)
(* hook and in the provider.                                               *)

C8_EnterStep ==
    (lastOp'.op = "handleButtonMouseEnter" /\ lastOp'.key \in DOMAIN buttonStates)
        => IF buttonStates[lastOp'.key] = "default"
           THEN buttonStates' = [buttonStates EXCEPT ![lastOp'.key] = "hover"]
           ELSE runtimeState' = runtimeState

C8_MouseEnter == [][C8_EnterStep]_vars

C8_Witness ==
    /\ lastOp = Op("handleButtonMouseEnter", "offer1")
    /\ buttonStates["offer1"] = "hover"

(* C9: handleButtonMouseLeave(k) changes button k to default when its      *)
(* state is hover or active and changes nothing otherwise, in the hook     *)
(* and in the provider.                                                    *)

C9_LeaveStep ==
    (lastOp'.op = "handleButtonMouseLeave" /\ lastOp'.key \in DOMAIN buttonStates)
        => IF buttonStates[lastOp'.key] \in {"hover", "active"}
           THEN buttonStates' = [buttonStates EXCEPT ![lastOp'.key] = "default"]
           ELSE runtimeState' = runtimeState

C9_MouseLeave == [][C9_LeaveStep]_vars

(* C10: a button enters disabled or claimed only through an explicit       *)
(* setButtonState call.  Amended: or, in the provider, through the button  *)
(* synchronisation of cycleOfferState for the same key.                    *)

C10_Enters(k) ==
    /\ k \in DOMAIN buttonStates'
    /\ buttonStates'[k] \in {"disabled", "claimed"}
    /\ (k \in DOMAIN buttonStates => buttonStates[k] # buttonStates'[k])

C10_OnlyExplicitSet ==
    [][\A k \in Keys : C10_Enters(k) => lastOp' = Op("setButtonState", k)]_vars

C10_OnlySetOrProviderCycle ==
    [][\A k \in Keys : C10_Enters(k) =>
          \/ lastOp' = Op("setButtonState", k)
          \/ impl = "provider" /\ lastOp' = Op("cycleOfferState", k)]_vars

C10_Witness ==
    /\ impl = "provider"
    /\ lastOp = Op("cycleOfferState", "offer1")
    /\ buttonStates["offer1"] = "claimed"

----------------------------------------------------------------------------
(* Timeouts do expire: the event loop runs every pending callback *)

LiveSpec == Spec /\ WF_vars(TimerFire)

----------------------------------------------------------------------------
(* C11: in the provider, right after every cycleOfferState(k) the button   *)
(* state of k is determined by the new offer state: disabled for Locked,   *)
(* default for Unlocked, claimed for Claimed, whatever it was before.      *)

C11_ButtonFor == [Locked |-> "disabled", Unlocked |-> "default", Claimed |-> "claimed"]

C11_SyncStep ==
    (impl = "provider" /\ lastOp'.op = "cycleOfferState")
        => /\ lastOp'.key \in DOMAIN state'.offerStates
           /\ lastOp'.key \in DOMAIN state'.buttonStates
           /\ state'.buttonStates[lastOp'.key]
                  = C11_ButtonFor[state'.offerStates[lastOp'.key]]

C11_ButtonSync == [][C11_SyncStep]_vars

C11_Witness ==
    /\ impl = "provider"
    /\ lastOp = Op("cycleOfferState", "offer1")
    /\ state.offerStates["offer1"] = "Locked"
    /\ state.buttonStates["offer1"] = "disabled"

(* C17: from any reachable state resetAllStates returns the runtime state  *)
(* to its initial value: every offer Locked, header active, every button   *)
(* default, isAnimating false, with exactly the initial key sets.          *)

C17_InitialState ==
    IF impl = "hook"
    THEN [offerStates  |-> [k \in InitialOfferKeys |-> "Locked"],
          headerState  |-> "active",
          buttonStates |-> [k \in InitialButtonKeys |-> "default"]]
    ELSE [offerStates  |-> [k \in InitialOfferKeys |-> "Locked"],
          headerState  |-> "active",
          buttonStates |-> [k \in InitialButtonKeys |-> "default"],
          isAnimating  |-> FALSE]

C17_ResetRestoresInitial ==
    [][lastOp'.op = "resetAllStates" => runtimeState' = C17_InitialState]_vars

----------------------------------------------------------------------------
(* The operations of the two implementations over given argument sets:     *)
(* keys K, offer states OS, header states HS, button states BS             *)

HookOps(K, OS, HS, BS) ==
    \/ \E k \in K, s \in OS : setOfferState_hook(k, s)
    \/ \E k \in K : cycleOfferState_hook(k)
    \/ \E s \in HS : setHeaderState_hook(s)
    \/ cycleHeaderState_hook
    \/ \E k \in K, s \in BS : setButtonState_hook(k, s)
    \/ \E k \in K : handleButtonMouseEnter_hook(k)
    \/ \E k \in K : handleButtonMouseLeave_hook(k)
    \/ \E k \in K : handleButtonClick(k)
    \/ TimerFire
    \/ resetAllStates_hook
    \/ Unmount

ProviderOps(K, OS, HS, BS) ==
    \/ \E k \in K, s \in OS : setOfferState(k, s)
    \/ \E k \in K : cycleOfferState(k)
    \/ \E s \in HS : setHeaderState(s)
    \/ cycleHeaderState
    \/ \E k \in K, s \in BS : setButtonState(k, s)
    \/ \E k \in K : handleButtonMouseEnter(k)
    \/ \E k \in K : handleButtonMouseLeave(k)
    \/ \E k \in K : handleButtonMouseDown(k)
    \/ \E k \in K : handleButtonMouseUp(k)
    \/ \E b \in BOOLEAN : setIsAnimating(b)
    \/ finishAnimation
    \/ resetAllStates

----------------------------------------------------------------------------
(* Several specification documents.  The implementation is mounted over    *)
(* one of them; the owner may later pass another document as the           *)
(* chainOfferData prop (App.handleFileUpload stores the new extraction     *)
(* result and the viewer's key does not depend on it, so the mounted       *)
(* instance is kept).  useState ignores its initializer after the mount.   *)

EmptyData == [offers |-> <<>>, buttons |-> <<>>]

Documents == {SampleData, EmptyData}

DocKeys == UNION {offerKeysOf(d) \cup buttonKeysOf(d) : d \in Documents}

DocInit ==
    /\ impl \in {"hook", "provider"}
    /\ chainOfferData \in Documents
    /\ componentState = Hook_initialState(chainOfferData)
    /\ rendered = componentState
    /\ isMounted = TRUE
    /\ timers = <<>>
    /\ clickLog = <<>>
    /\ callbackLog = <<>>
    /\ state = Provider_initialState(chainOfferData)
    /\ lastOp = Op("mount", NoKey)
    /\ layout = NoLayout

setChainOfferData(d) ==
    /\ d # chainOfferData
    /\ impl = "hook" => isMounted
    /\ chainOfferData' = d
    /\ lastOp' = Op("setChainOfferData", NoKey)
    /\ UNCHANGED << layout, impl, state >>
    /\ UNCHANGED hookVars

DocNext ==
    \/ HookOps(DocKeys, OfferState, HeaderState, ButtonState)
    \/ ProviderOps(DocKeys, OfferState, HeaderState, ButtonState)
    \/ \E d \in Documents : setChainOfferData(d)

DocSpec == DocInit /\ [][DocNext]_vars

(* C12: at initialization every offerKey of the specification maps to      *)
(* Locked, headerState is active, every button offerKey maps to default    *)
(* and isAnimating is false; empty offers and buttons yield empty maps.    *)

C12_InitialState ==
    lastOp.op = "mount" =>
        /\ \A k \in offerKeysOf(chainOfferData) :
               k \in DOMAIN offerStates /\ offerStates[k] = "Locked"
        /\ headerState = "active"
        /\ \A k \in buttonKeysOf(chainOfferData) :
               k \in DOMAIN buttonStates /\ buttonStates[k] = "default"
        /\ impl = "provider" => state.isAnimating = FALSE
        /\ chainOfferData.offers = <<>> => DOMAIN offerStates = {}
        /\ chainOfferData.buttons = <<>> => DOMAIN buttonStates = {}

C12_Witness ==
    /\ lastOp.op = "mount"
    /\ chainOfferData = EmptyData
    /\ DOMAIN offerStates = {}
    /\ DOMAIN buttonStates = {}

(* C13: the runtime state never outlives a specification: when the mounted *)
(* hook is given a different chainOfferData, afterwards offerStates has    *)
(* exactly the new offerKeys, all Locked, headerState is active and        *)
(* buttonStates has exactly the new button keys, all default.              *)

C13_FreshState(d) ==
    [offerStates  |-> [k \in offerKeysOf(d) |-> "Locked"],
     headerState  |-> "active",
     buttonStates |-> [k \in buttonKeysOf(d) |-> "default"]]

C13_StateDiscardedOnNewSpec ==
    [][(impl = "hook" /\ lastOp'.op = "setChainOfferData")
          => componentState' = C13_FreshState(chainOfferData')]_vars

----------------------------------------------------------------------------
(* Callers outside the type checker.  The OfferState, HeaderState and      *)
(* ButtonState unions exist only at compile time; at run time the set      *)
(* operations receive whatever string the caller passes.                   *)

InvalidValue == "bogus"

AnyOfferState == OfferState \cup {InvalidValue}

AnyHeaderState == HeaderState \cup {InvalidValue}

AnyButtonState == ButtonState \cup {InvalidValue}

UntypedNext ==
    \/ HookOps(offerKeysOf(SampleData), AnyOfferState, AnyHeaderState,
               AnyButtonState)
    \/ ProviderOps(offerKeysOf(SampleData), AnyOfferState, AnyHeaderState,
                   AnyButtonState)

UntypedSpec == Init /\ [][UntypedNext]_vars

(* C14: in every reachable state every value in offerStates is one of      *)
(* Locked, Unlocked, Claimed, headerState is one of active, success, fail  *)
(* and every value in buttonStates is one of default, hover, active,       *)
(* disabled, claimed, whatever string the set operations were called with. *)

C14_OnlyValidValues ==
    /\ \A k \in DOMAIN offerStates : offerStates[k] \in OfferState
    /\ headerState \in HeaderState
    /\ \A k \in DOMAIN buttonStates : buttonStates[k] \in ButtonState

----------------------------------------------------------------------------
(* ChainOfferViewer: the hook driven only through the events the viewer    *)
(* wires to its renderers.  The viewer takes cycleOfferState,              *)
(* cycleHeaderState, handleButtonMouseEnter, handleButtonMouseLeave and    *)
(* handleButtonClick from the hook and nothing else.                       *)

ViewerData == [offers |-> <<"offer1", "offer2">>, buttons |-> <<"offer1", "offer2">>]

KeyboardKeys == {"Enter", " ", "Tab"}

ViewerInit ==
    /\ impl = "hook"
    /\ chainOfferData = ViewerData
    /\ componentState = Hook_initialState(chainOfferData)
    /\ rendered = componentState
    /\ isMounted = TRUE
    /\ timers = <<>>
    /\ clickLog = <<>>
    /\ callbackLog = <<>>
    /\ state = Provider_initialState(chainOfferData)
    /\ lastOp = Op("mount", NoKey)
    /\ layout = NoLayout

\* const handleClick = () => { onCycleState(offer.offerKey) }
OfferRenderer_handleClick(k) == cycleOfferState_hook(k)

\* if (e.key === 'Enter' || e.key === ' ') { e.preventDefault(); handleClick() }
OfferRenderer_handleKeyDown(k, key) ==
    IF key = "Enter" \/ key = " "
    THEN OfferRenderer_handleClick(k)
    ELSE /\ HookLive
         /\ lastOp' = Op("keydown", k)
         /\ UNCHANGED << layout, impl, chainOfferData, componentState, rendered,
                         isMounted, timers, clickLog, callbackLog, state >>

\* <HeaderRenderer onCycleState={cycleHeaderState} />
HeaderRenderer_handleClick == cycleHeaderState_hook

\* <button onClick={onClick} disabled={currentState === 'disabled'}>
ButtonRenderer_onClick(k) ==
    /\ orDefault(rendered.buttonStates, k, "default") # "disabled"
    /\ handleButtonClick(k)

ViewerNext ==
    \/ \E k \in offerKeysOf(chainOfferData) : OfferRenderer_handleClick(k)
    \/ \E k \in offerKeysOf(chainOfferData), key \in KeyboardKeys :
           OfferRenderer_handleKeyDown(k, key)
    \/ HeaderRenderer_handleClick
    \/ \E k \in buttonKeysOf(chainOfferData) : handleButtonMouseEnter_hook(k)
    \/ \E k \in buttonKeysOf(chainOfferData) : handleButtonMouseLeave_hook(k)
    \/ \E k \in buttonKeysOf(chainOfferData) : ButtonRenderer_onClick(k)
    \/ TimerFire
    \/ Unmount

ViewerSpec == ViewerInit /\ [][ViewerNext]_vars

(* C15: in the viewer the state of an offer or of the header changes only  *)
(* by an activation of that very element, and every activation of a        *)
(* mounted element is exactly one step of its cycle; timers, button        *)
(* events and activations of other elements leave it alone.                *)

C15_NextOffer == [Locked |-> "Unlocked", Unlocked |-> "Claimed", Claimed |-> "Locked"]

C15_NextHeader == [active |-> "success", success |-> "fail", fail |-> "active"]

C15_Step ==
    /\ DOMAIN offerStates' = DOMAIN offerStates
    /\ \A k \in DOMAIN offerStates :
           IF lastOp'.op = "cycleOfferState" /\ lastOp'.key = k
           THEN offerStates'[k] = C15_NextOffer[offerStates[k]]
           ELSE offerStates'[k] = offerStates[k]
    /\ IF lastOp'.op = "cycleHeaderState"
       THEN headerState' = C15_NextHeader[headerState]
       ELSE headerState' = headerState

C15_OnlyOwnActivation == [][C15_Step]_vars

C15_Witness ==
    /\ lastOp = Op("cycleOfferState", "offer2")
    /\ offerStates["offer2"] = "Claimed"
    /\ offerStates["offer1"] = "Unlocked"
    /\ headerState = "fail"
    /\ timers # <<>>

----------------------------------------------------------------------------
(* The hook and the provider side by side: both are mounted over the same  *)
(* document and receive the same operation with the same arguments, one    *)
(* operation at a time (a re-render separates two operations).             *)

LockstepInit ==
    /\ impl = "both"
    /\ chainOfferData = SampleData
    /\ componentState = Hook_initialState(chainOfferData)
    /\ rendered = componentState
    /\ isMounted = TRUE
    /\ timers = <<>>
    /\ clickLog = <<>>
    /\ callbackLog = <<>>
    /\ state = Provider_initialState(chainOfferData)
    /\ lastOp = Op("mount", NoKey)
    /\ layout = NoLayout

LockstepCommit(nextHook, nextProvider, name, key) ==
    /\ impl = "both"
    /\ componentState' = nextHook
    /\ rendered' = nextHook
    /\ state' = nextProvider
    /\ lastOp' = Op(name, key)
    /\ UNCHANGED << layout, impl, chainOfferData, isMounted, timers, clickLog,
                    callbackLog >>

setOfferState_both(k, s) ==
    LockstepCommit(Hook_setOfferState(componentState, k, s),
                   Provider_setOfferState(state, k, s), "setOfferState", k)

cycleOfferState_both(k) ==
    LockstepCommit(Hook_cycleOfferState(componentState, rendered, k),
                   Provider_cycleOfferState(state, k), "cycleOfferState", k)

setHeaderState_both(s) ==
    LockstepCommit(Hook_setHeaderState(componentState, s),
                   Provider_setHeaderState(state, s), "setHeaderState", NoKey)

cycleHeaderState_both ==
    LockstepCommit(Hook_cycleHeaderState(componentState, rendered),
                   Provider_cycleHeaderState(state), "cycleHeaderState", NoKey)

setButtonState_both(k, s) ==
    LockstepCommit(Hook_setButtonState(componentState, k, s),
                   Provider_setButtonState(state, k, s), "setButtonState", k)

resetAllStates_both ==
    LockstepCommit(Hook_resetAllStates(chainOfferData),
                   Provider_resetAllStates(state), "resetAllStates", NoKey)

LockstepNext ==
    \/ \E k \in Keys, s \in OfferState : setOfferState_both(k, s)
    \/ \E k \in Keys : cycleOfferState_both(k)
    \/ \E s \in HeaderState : setHeaderState_both(s)
    \/ cycleHeaderState_both
    \/ \E k \in Keys, s \in ButtonState : setButtonState_both(k, s)
    \/ resetAllStates_both

LockstepSpec == LockstepInit /\ [][LockstepNext]_vars

(* C16: given the same sequence of setOfferState, cycleOfferState,         *)
(* setHeaderState, cycleHeaderState, setButtonState and resetAllStates     *)
(* operations, the hook and the provider are in the same offerStates,      *)
(* headerState and buttonStates after every step.                          *)

C16_SameState ==
    impl = "both" =>
        /\ componentState.offerStates = state.offerStates
        /\ componentState.headerState = state.headerState
        /\ componentState.buttonStates = state.buttonStates

----------------------------------------------------------------------------
(* JavaScript numbers.  A Number is an IEEE 754 binary64 value; the finite *)
(* values met here are zero and the normal numbers, written                *)
(*   sign * (man[1].man[2]...man[53])_2 * 2^exp     with man[1] = 1.       *)
(* Both zeros are one value.  The operands the viewer supplies (pixel      *)
(* sizes) are integers; quotients and products are rounded to nearest,     *)
(* ties to even, as the language requires.                                 *)

MantissaBits == 53

Zero == [sign |-> 0, exp |-> 0, man |-> [i \in 1..MantissaBits |-> 0]]

Abs(n) == IF n < 0 THEN 0 - n ELSE n

Sign(n) == IF n < 0 THEN -1 ELSE IF n = 0 THEN 0 ELSE 1

RECURSIVE Pow2(_)
Pow2(n) == IF n = 0 THEN 1 ELSE 2 * Pow2(n - 1)

\* the binary digits of a natural number, most significant first
RECURSIVE IntBits(_)
IntBits(n) == IF n = 0 THEN <<>> ELSE Append(IntBits(n \div 2), n % 2)

\* the Number that holds the integer n exactly
fromInt(n) ==
    IF n = 0 THEN Zero
    ELSE LET b == IntBits(Abs(n))
         IN  [sign |-> Sign(n),
              exp  |-> Len(b) - 1,
              man  |-> [i \in 1..MantissaBits |-> IF i <= Len(b) THEN b[i] ELSE 0]]

\* floor(log2(N / D)) for positive integers N, D
RECURSIVE QuotientExp(_, _, _)
QuotientExp(N, D, e) ==
    IF N < D THEN QuotientExp(2 * N, D, e - 1)
    ELSE IF 2 * D <= N THEN QuotientExp(N, 2 * D, e + 1)
    ELSE e

\* the quotient digits of (D + r) / D (r < D) after the leading 1, up to
\* MantissaBits digits in all, and the remainder
RECURSIVE LongDivision(_, _, _)
LongDivision(r, D, acc) ==
    IF Len(acc) = MantissaBits THEN [bits |-> acc, rem |-> r]
    ELSE IF 2 * r >= D
         THEN LongDivision(2 * r - D, D, Append(acc, 1))
         ELSE LongDivision(2 * r, D, Append(acc, 0))

\* bits + 1 in the last place, carrying towards bits[1]
RECURSIVE AddOne(_, _)
AddOne(bits, i) ==
    IF i = 0 THEN bits
    ELSE IF bits[i] = 0 THEN [bits EXCEPT ![i] = 1]
    ELSE AddOne([bits EXCEPT ![i] = 0], i - 1)

\* the next larger magnitude with the same number of digits
RoundUp(e, bits) ==
    IF \A i \in 1..Len(bits) : bits[i] = 1
    THEN [exp |-> e + 1, man |-> [i \in 1..Len(bits) |-> IF i = 1 THEN 1 ELSE 0]]
    ELSE [exp |-> e, man |-> AddOne(bits, Len(bits))]

\* a / b for integers a and b # 0
NumDiv(a, b) ==
    IF a = 0 THEN Zero
    ELSE LET e  == QuotientExp(Abs(a), Abs(b), 0)
             n  == IF e >= 0 THEN Abs(a) ELSE Abs(a) * Pow2(0 - e)
             d  == IF e >= 0 THEN Abs(b) * Pow2(e) ELSE Abs(b)
             q  == LongDivision(n - d, d, <<1>>)
             up == \/ 2 * q.rem > d
                   \/ 2 * q.rem = d /\ q.bits[MantissaBits] = 1
             r  == IF up THEN RoundUp(e, q.bits) ELSE [exp |-> e, man |-> q.bits]
         IN  [sign |-> Sign(a) * Sign(b), exp |-> r.exp, man |-> r.man]

\* the digits of w * (man)_2 for a positive integer w, most significant
\* first; acc holds the digits already produced from the low end of man
RECURSIVE MulBits(_, _, _, _)
MulBits(w, man, carry, acc) ==
    IF Len(acc) = Len(man) THEN IntBits(carry) \o acc
    ELSE LET v == w * man[Len(man) - Len(acc)] + carry
         IN  MulBits(w, man, v \div 2, <<v % 2>> \o acc)

\* w * x for an integer w and a Number x
NumMul(w, x) ==
    IF w = 0 \/ x.sign = 0 THEN Zero
    ELSE LET p    == MulBits(Abs(w), x.man, 0, <<>>)
             L    == Len(p) - MantissaBits
             kept == SubSeq(p, 1, MantissaBits)
             e    == x.exp + L
             up   == /\ L > 0
                     /\ p[MantissaBits + 1] = 1
                     /\ \/ \E i \in (MantissaBits + 2)..Len(p) : p[i] = 1
                        \/ kept[MantissaBits] = 1
             r    == IF up THEN RoundUp(e, kept) ELSE [exp |-> e, man |-> kept]
         IN  [sign |-> Sign(w) * x.sign, exp |-> r.exp, man |-> r.man]

\* |x| < |y| for non-zero Numbers
MagLess(x, y) ==
    \/ x.exp < y.exp
    \/ /\ x.exp = y.exp
       /\ \E i \in 1..MantissaBits :
              /\ x.man[i] < y.man[i]
              /\ \A j \in 1..(i - 1) : x.man[j] = y.man[j]

\* x < y
NumLess(x, y) ==
    IF x.sign # y.sign THEN x.sign < y.sign
    ELSE IF x.sign = 0 THEN FALSE
    ELSE IF x.sign = 1 THEN MagLess(x, y)
    ELSE MagLess(y, x)

NumLessEq(x, y) == ~NumLess(y, x)

Math_min(x, y) == IF NumLess(y, x) THEN y ELSE x

\* faulty variant: the larger of the two ratios (cover-fit instead of contain-fit)
calculateChainOfferScale_max(originalSize, targetSize) ==
    LET scaleX == NumDiv(targetSize.width, originalSize.width)
        scaleY == NumDiv(targetSize.height, originalSize.height)
        scale  == IF NumLess(scaleX, scaleY) THEN scaleY ELSE scaleX
        scaledWidth  == NumMul(originalSize.width, scale)
        scaledHeight == NumMul(originalSize.height, scale)
    IN  [scale |-> scale, scaledWidth |-> scaledWidth, scaledHeight |-> scaledHeight]

\* calculateChainOfferScale(originalSize, targetSize)
calculateChainOfferScale(originalSize, targetSize) ==
    LET scaleX == NumDiv(targetSize.width, originalSize.width)
        scaleY == NumDiv(targetSize.height, originalSize.height)
        scale  == Math_min(scaleX, scaleY)
        scaledWidth  == NumMul(originalSize.width, scale)
        scaledHeight == NumMul(originalSize.height, scale)
    IN  [scale |-> scale, scaledWidth |-> scaledWidth, scaledHeight |-> scaledHeight]

----------------------------------------------------------------------------
(* calculateChainOfferScale applied to positive sizes *)

OriginalSizes == {7, 49, 600, 800}

TargetSizes == {1, 29, 400}

NoResult == "none"

Size(w, h) == [width |-> w, height |-> h]

ScaleInit ==
    /\ impl = "none"
    /\ chainOfferData = SampleData
    /\ componentState = Hook_initialState(chainOfferData)
    /\ rendered = componentState
    /\ isMounted = TRUE
    /\ timers = <<>>
    /\ clickLog = <<>>
    /\ callbackLog = <<>>
    /\ state = Provider_initialState(chainOfferData)
    /\ lastOp = Op("mount", NoKey)
    /\ \E ow \in OriginalSizes, oh \in OriginalSizes,
          tw \in TargetSizes, th \in TargetSizes :
           layout = [originalSize |-> Size(ow, oh),
                     targetSize   |-> Size(tw, th),
                     result       |-> NoResult]

calculateScale ==
    /\ lastOp.op = "mount"
    /\ layout' = [layout EXCEPT !.result =
                      calculateChainOfferScale(layout.originalSize,
                                               layout.targetSize)]
    /\ lastOp' = Op("calculateChainOfferScale", NoKey)
    /\ UNCHANGED << impl, chainOfferData, state >>
    /\ UNCHANGED hookVars

ScaleNext == calculateScale

ScaleSpec == ScaleInit /\ [][ScaleNext]_vars

\* the Number next above a positive Number
Succ(x) == [sign |-> x.sign] @@ RoundUp(x.exp, x.man)

\* equal, or neighbours on the grid of Numbers
Adjacent(x, y) == x = y \/ x = Succ(y) \/ y = Succ(x)

C18_Computed == lastOp.op = "calculateChainOfferScale"

C18_TargetWidth == fromInt(layout.targetSize.width)

C18_TargetHeight == fromInt(layout.targetSize.height)

C18_ScaleIsMin ==
    LET scaleX == NumDiv(layout.targetSize.width, layout.originalSize.width)
        scaleY == NumDiv(layout.targetSize.height, layout.originalSize.height)
    IN  /\ layout.result.scale \in {scaleX, scaleY}
        /\ NumLessEq(layout.result.scale, scaleX)
        /\ NumLessEq(layout.result.scale, scaleY)
        /\ layout.result.scaledWidth =
               NumMul(layout.originalSize.width, layout.result.scale)
        /\ layout.result.scaledHeight =
               NumMul(layout.originalSize.height, layout.result.scale)

(* C18, as stated: for positive sizes scale is the smaller ratio, the      *)
(* scaled width and height do not exceed the target's and at least one of  *)
(* them equals the target's.                                               *)

C18_ContainFitExact ==
    C18_Computed =>
        /\ C18_ScaleIsMin
        /\ NumLessEq(layout.result.scaledWidth, C18_TargetWidth)
        /\ NumLessEq(layout.result.scaledHeight, C18_TargetHeight)
        /\ \/ layout.result.scaledWidth = C18_TargetWidth
           \/ layout.result.scaledHeight = C18_TargetHeight

(* C18, amended: the quotient and the products are rounded to the nearest  *)
(* Number, so the scaled width and height exceed the target's by at most   *)
(* one unit in the last place and at least one of them is the target's     *)
(* value or a neighbouring Number; 800x600 into 400x400 gives exactly      *)
(* scale 1/2 and 400x300.                                                  *)

C18_ContainFitRounded ==
    C18_Computed =>
        /\ C18_ScaleIsMin
        /\ NumLessEq(layout.result.scaledWidth, Succ(C18_TargetWidth))
        /\ NumLessEq(layout.result.scaledHeight, Succ(C18_TargetHeight))
        /\ \/ Adjacent(layout.result.scaledWidth, C18_TargetWidth)
           \/ Adjacent(layout.result.scaledHeight, C18_TargetHeight)
        /\ (layout.originalSize = Size(800, 600) /\ layout.targetSize = Size(400, 400))
               => layout.result = [scale        |-> NumDiv(1, 2),
                                   scaledWidth  |-> fromInt(400),
                                   scaledHeight |-> fromInt(300)]

C18_Witness ==
    /\ C18_Computed
    /\ layout.originalSize = Size(7, 49)
    /\ layout.targetSize = Size(29, 400)
    /\ layout.result.scaledWidth = Succ(fromInt(29))

----------------------------------------------------------------------------
(* The demo application: a theme archive is uploaded, extracted and handed *)
(* to ChainOfferViewer together with a width and a height.  Every handler  *)
(* ends with the re-render in which the viewer computes its layout.        *)

DefaultFrameWidth == 375

DefaultFrameHeight == 812

\* documents as JSON.parse returns them: any top-level field may be absent
WellFormedDocument ==
    [offers |-> <<"offer1">>, buttons |-> <<"offer1">>, frameSize |-> Size(800, 600)]

DocumentWithoutOffers == [buttons |-> <<"offer1">>, frameSize |-> Size(800, 600)]

DocumentWithoutButtons == [offers |-> <<"offer1">>, frameSize |-> Size(800, 600)]

DocumentWithoutFrameSize == [offers |-> <<"offer1">>, buttons |-> <<"offer1">>]

DocumentWithZeroFrame ==
    [offers |-> <<"offer1">>, buttons |-> <<"offer1">>, frameSize |-> Size(0, 0)]

DocumentWithNegativeFrame ==
    [offers |-> <<"offer1">>, buttons |-> <<"offer1">>, frameSize |-> Size(-800, 600)]

ParsedDocuments ==
    {WellFormedDocument, DocumentWithoutOffers, DocumentWithoutButtons,
     DocumentWithoutFrameSize, DocumentWithZeroFrame, DocumentWithNegativeFrame}

\* an archive holds a positions file (its parsed content) or none
ZipFiles == {<<>>} \cup {<<d>> : d \in ParsedDocuments}

\* widths and heights the owner may set
WidthInputs == {0, -100}

HeightInputs == {0}

\* n || dflt for a number n (0 is falsy)
numberOr(n, dflt) == IF n = 0 THEN dflt ELSE n

\* chainOfferData.frameSize?.width || 375
frameWidthOf(data) ==
    IF "frameSize" \in DOMAIN data
    THEN numberOr(data.frameSize.width, DefaultFrameWidth)
    ELSE DefaultFrameWidth

\* chainOfferData.frameSize?.height || 812
frameHeightOf(data) ==
    IF "frameSize" \in DOMAIN data
    THEN numberOr(data.frameSize.height, DefaultFrameHeight)
    ELSE DefaultFrameHeight

\* extractChainOfferZip: rejects when there is no positions file, and when
\* chainOfferData.offers.map throws because offers is undefined
extractChainOfferZip(zipFile) ==
    IF zipFile = <<>> THEN [ok |-> FALSE]
    ELSE LET data == zipFile[1]
         IN  IF "offers" \notin DOMAIN data THEN [ok |-> FALSE]
             ELSE [ok |-> TRUE, chainOfferData |-> data]

\* ChainOfferViewer: originalSize, targetSize and the scale of one render
ChainOfferViewer_layout(data, width, height) ==
    LET originalSize == Size(frameWidthOf(data), frameHeightOf(data))
        targetSize   == Size(width, height)
    IN  [originalSize |-> originalSize,
         targetSize   |-> targetSize,
         result       |-> calculateChainOfferScale(originalSize, targetSize)]

\* what the application shows: nothing until an extraction has succeeded
AppRender(extractedAssets, width, height) ==
    IF extractedAssets = <<>> THEN <<>>
    ELSE <<ChainOfferViewer_layout(extractedAssets[1], width, height)>>

AppInit ==
    /\ impl = "hook"
    /\ chainOfferData = EmptyData
    /\ componentState = Hook_initialState(chainOfferData)
    /\ rendered = componentState
    /\ isMounted = TRUE
    /\ timers = <<>>
    /\ clickLog = <<>>
    /\ callbackLog = <<>>
    /\ state = Provider_initialState(chainOfferData)
    /\ lastOp = Op("mount", NoKey)
    /\ layout = [extractedAssets |-> <<>>,
                 width  |-> DefaultFrameWidth,
                 height |-> DefaultFrameHeight,
                 error  |-> FALSE,
                 view   |-> <<>>]

AppCommit(extractedAssets, width, height, error, name) ==
    /\ layout' = [extractedAssets |-> extractedAssets,
                  width  |-> width,
                  height |-> height,
                  error  |-> error,
                  view   |-> AppRender(extractedAssets, width, height)]
    /\ lastOp' = Op(name, NoKey)
    /\ UNCHANGED << impl, chainOfferData, state >>
    /\ UNCHANGED hookVars

handleFileUpload(zipFile) ==
    LET assets == extractChainOfferZip(zipFile)
    IN  IF assets.ok
        THEN AppCommit(<<assets.chainOfferData>>,
                       frameWidthOf(assets.chainOfferData),
                       frameHeightOf(assets.chainOfferData),
                       FALSE, "handleFileUpload")
        ELSE AppCommit(layout.extractedAssets, layout.width, layout.height,
                       TRUE, "handleFileUpload")

onChainOfferWidthChange(w) ==
    /\ w # layout.width
    /\ AppCommit(layout.extractedAssets, w, layout.height, layout.error,
                 "onChainOfferWidthChange")

onChainOfferHeightChange(h) ==
    /\ h # layout.height
    /\ AppCommit(layout.extractedAssets, layout.width, h, layout.error,
                 "onChainOfferHeightChange")

AppNext ==
    \/ \E zipFile \in ZipFiles : handleFileUpload(zipFile)
    \/ \E w \in WidthInputs : onChainOfferWidthChange(w)
    \/ \E h \in HeightInputs : onChainOfferHeightChange(h)

AppSpec == AppInit /\ [][AppNext]_vars

(* C19: when the target width or height passed to the viewer is <= 0, or   *)
(* the frame is zero-area, the viewer falls back to a default size: the    *)
(* scale it computes is never zero or negative.                            *)

C19_ScaleAlwaysPositive ==
    layout.view # <<>> => layout.view[1].result.scale.sign = 1

(* C20: a malformed specification (offers, buttons or frameSize missing,   *)
(* or a zero or negative frame dimension) is rejected as a failed load:    *)
(* the document the application holds and renders is always well formed.   *)

C20_WellFormed(data) ==
    /\ {"offers", "buttons", "frameSize"} \subseteq DOMAIN data
    /\ data.frameSize.width > 0
    /\ data.frameSize.height > 0

C20_MalformedRejected ==
    layout.extractedAssets # <<>> => C20_WellFormed(layout.extractedAssets[1])

----------------------------------------------------------------------------
(* ChainOfferViewer: which layers one render produces.  The props are the  *)
(* document, the extracted background image and the caller's partial       *)
(* visibility map; a layer's content is <<>> where the code yields null    *)
(* and <<c>> where it yields content c.                                    *)

LayerNames == {"background", "header", "offers", "timer", "buttons"}

DefaultVisibility == [k \in LayerNames |-> TRUE]

\* faulty variant: the defaults are spread over the caller's map
visibility_defaultsWin(componentVisibility) ==
    [k \in DOMAIN componentVisibility \cup DOMAIN DefaultVisibility |->
        IF k \in DOMAIN DefaultVisibility THEN DefaultVisibility[k]
        ELSE componentVisibility[k]]

\* { background: true, ..., buttons: true, ...componentVisibility }
visibility(componentVisibility) ==
    [k \in DOMAIN DefaultVisibility \cup DOMAIN componentVisibility |->
        IF k \in DOMAIN componentVisibility THEN componentVisibility[k]
        ELSE DefaultVisibility[k]]

ZIndexOffers == 10

ZIndexHeader == 20

ZIndexTimer == 25

ZIndexButtons == 30

\* offersContent: one wrapper per offer that has an offerKey and stateBounds
offersContent(vis, data, st) ==
    IF ~vis.offers \/ "offers" \notin DOMAIN data THEN <<>>
    ELSE << [i \in DOMAIN data.offers |->
               IF data.offers[i].offerKey = "" \/
                  "stateBounds" \notin DOMAIN data.offers[i]
               THEN <<>>
               ELSE << [key          |-> data.offers[i].offerKey,
                        zIndex       |-> ZIndexOffers,
                        currentState |-> orDefault(st.offerStates,
                                             data.offers[i].offerKey, "Locked")] >>] >>

timerContent(vis, data) ==
    IF ~vis.timer \/ "timer" \notin DOMAIN data THEN <<>>
    ELSE << [zIndex |-> ZIndexTimer] >>

headerContent(vis, data, st) ==
    IF ~vis.header \/ "header" \notin DOMAIN data THEN <<>>
    ELSE << [zIndex |-> ZIndexHeader, currentState |-> st.headerState] >>

buttonsContent(vis, data, st) ==
    IF ~vis.buttons \/ "buttons" \notin DOMAIN data THEN <<>>
    ELSE << [i \in DOMAIN data.buttons |->
               IF data.buttons[i].offerKey = "" THEN <<>>
               ELSE << [key          |-> data.buttons[i].offerKey,
                        zIndex       |-> ZIndexButtons,
                        currentState |-> orDefault(st.buttonStates,
                                             data.buttons[i].offerKey, "default")] >>] >>

\* visibility.background && assets.backgroundImage && <div ...>
backgroundContent(vis, assets) ==
    IF vis.background /\ assets.backgroundImage # ""
    THEN << [image |-> assets.backgroundImage] >>
    ELSE <<>>

\* the children of the canvas in document order
ChainOfferViewer_render(props, st) ==
    LET vis == visibility(props.componentVisibility)
    IN  << [layer   |-> "background",
            content |-> backgroundContent(vis, props.assets)],
           [layer   |-> "timer",
            content |-> timerContent(vis, props.chainOfferData)],
           [layer   |-> "header",
            content |-> headerContent(vis, props.chainOfferData, st)],
           [layer   |-> "offers",
            content |-> offersContent(vis, props.chainOfferData, st)],
           [layer   |-> "buttons",
            content |-> buttonsContent(vis, props.chainOfferData, st)] >>

\* bounds of one offer state (centre x, y and size in frame pixels)
Bounds(x, y, width, height) == [x |-> x, y |-> y, width |-> width, height |-> height]

SampleOffer ==
    [offerKey    |-> "offer1",
     stateBounds |-> [Locked   |-> Bounds(174, 172, 271, 187),
                      Unlocked |-> Bounds(67, 52, 105, 55),
                      Claimed  |-> Bounds(75, 60, 110, 60)]]

SampleButton ==
    [offerKey    |-> "offer1",
     position    |-> [x |-> 174, y |-> 300],
     stateStyles |-> [s \in ButtonState |-> [style |-> s]]]

FullDocument ==
    [timer   |-> [position |-> [x |-> 100, y |-> 20]],
     header  |-> [stateBounds |-> [s \in HeaderState |-> Bounds(187, 60, 300, 80)]],
     offers  |-> <<SampleOffer>>,
     buttons |-> <<SampleButton>>]

\* every optional component present or absent
LayerDocuments ==
    {[k \in present |-> FullDocument[k]] : present \in SUBSET DOMAIN FullDocument}

\* every partial visibility map
VisibilityMaps == UNION {[flags -> BOOLEAN] : flags \in SUBSET LayerNames}

BackgroundImages == {"", "blob:background"}

\* the offerKeys the hook reads from the document (Array.isArray guards)
HookDocument(data) ==
    [offers  |-> IF "offers" \in DOMAIN data
                 THEN [i \in DOMAIN data.offers |-> data.offers[i].offerKey]
                 ELSE <<>>,
     buttons |-> IF "buttons" \in DOMAIN data
                 THEN [i \in DOMAIN data.buttons |-> data.buttons[i].offerKey]
                 ELSE <<>>]

LayerInit ==
    /\ impl = "hook"
    /\ \E data \in LayerDocuments, cv \in VisibilityMaps, img \in BackgroundImages :
         /\ chainOfferData = HookDocument(data)
         /\ componentState = Hook_initialState(chainOfferData)
         /\ layout = [props |-> [chainOfferData      |-> data,
                                 assets              |-> [backgroundImage |-> img],
                                 componentVisibility |-> cv],
                      view  |-> ChainOfferViewer_render(
                                    [chainOfferData      |-> data,
                                     assets              |-> [backgroundImage |-> img],
                                     componentVisibility |-> cv],
                                    componentState)]
    /\ rendered = componentState
    /\ isMounted = TRUE
    /\ timers = <<>>
    /\ clickLog = <<>>
    /\ callbackLog = <<>>
    /\ state = Provider_initialState(chainOfferData)
    /\ lastOp = Op("mount", NoKey)

\* a viewer event: the hook commits `next` and the viewer renders again
ViewerCommit(next, name, key) ==
    /\ HookLive
    /\ componentState' = next
    /\ rendered' = next
    /\ layout' = [layout EXCEPT !.view = ChainOfferViewer_render(layout.props, next)]
    /\ lastOp' = Op(name, key)
    /\ UNCHANGED << impl, chainOfferData, isMounted, timers, clickLog,
                    callbackLog, state >>

\* the content of one layer in the last render
LayerContent(name) ==
    LET i == CHOOSE j \in DOMAIN layout.view : layout.view[j].layer = name
    IN  layout.view[i].content

\* a click on a rendered offer
Viewer_offerClick(k) ==
    /\ LayerContent("offers") # <<>>
    /\ \E i \in DOMAIN LayerContent("offers")[1] :
           /\ LayerContent("offers")[1][i] # <<>>
           /\ LayerContent("offers")[1][i][1].key = k
    /\ ViewerCommit(Hook_cycleOfferState(componentState, rendered, k),
                    "cycleOfferState", k)

\* a click on the rendered header
Viewer_headerClick ==
    /\ LayerContent("header") # <<>>
    /\ ViewerCommit(Hook_cycleHeaderState(componentState, rendered),
                    "cycleHeaderState", NoKey)

LayerNext ==
    \/ \E k \in {"offer1"} : Viewer_offerClick(k)
    \/ Viewer_headerClick

LayerSpec == LayerInit /\ [][LayerNext]_vars

(* C21: an element layer (timer, header, offers, buttons) is rendered iff  *)
(* its flag, the caller's where given and true otherwise, is true and the  *)
(* component is present in the document; the background is rendered iff    *)
(* its flag is true and a background image exists.                         *)

C21_Flag(name) ==
    IF name \in DOMAIN layout.props.componentVisibility
    THEN layout.props.componentVisibility[name]
    ELSE TRUE

C21_LayerGate ==
    /\ \A name \in {"timer", "header", "offers", "buttons"} :
           LayerContent(name) # <<>>
               <=> (C21_Flag(name) /\ name \in DOMAIN layout.props.chainOfferData)
    /\ LayerContent("background") # <<>>
           <=> (C21_Flag("background") /\ layout.props.assets.backgroundImage # "")

C21_Witness ==
    /\ lastOp.op = "cycleOfferState"
    /\ DOMAIN layout.props.componentVisibility = {"timer"}
    /\ layout.props.componentVisibility["timer"] = FALSE
    /\ "timer" \in DOMAIN layout.props.chainOfferData
    /\ "buttons" \notin DOMAIN layout.props.chainOfferData
    /\ LayerContent("timer") = <<>>
    /\ LayerContent("offers") # <<>>
    /\ LayerContent("buttons") = <<>>

\* the wrappers a layer contributes to the canvas
LayerWrappers(name) ==
    LET c == LayerContent(name)
    IN  IF c = <<>> THEN {}
        ELSE IF name \in {"offers", "buttons"}
        THEN {c[1][i][1] : i \in {j \in DOMAIN c[1] : c[1][j] # <<>>}}
        ELSE {c[1]}

\* the inline z-index of a wrapper; the background has none (level 0)
StackLevel(wrapper) == IF "zIndex" \in DOMAIN wrapper THEN wrapper.zIndex ELSE 0

DocumentOrder(name) == CHOOSE j \in DOMAIN layout.view : layout.view[j].layer = name

\* every wrapper of layer `upper` is painted over every wrapper of `lower`:
\* positioned siblings paint by z-index, equal levels in document order
PaintedAbove(upper, lower) ==
    \A u \in LayerWrappers(upper), l \in LayerWrappers(lower) :
        \/ StackLevel(u) > StackLevel(l)
        \/ StackLevel(u) = StackLevel(l) /\ DocumentOrder(upper) > DocumentOrder(lower)

(* C22: in every render the layers are stacked background, timer, header,  *)
(* offers, buttons from bottom to top, whatever the runtime state and the  *)
(* visibility flags.                                                       *)

C22_Stack == <<"background", "timer", "header", "offers", "buttons">>

C22_FixedStackingOrder ==
    \A i \in 1..Len(C22_Stack), j \in 1..Len(C22_Stack) :
        i < j => PaintedAbove(C22_Stack[j], C22_Stack[i])

----------------------------------------------------------------------------
(* OfferRenderer and ButtonRenderer as functions of their props.  A        *)
(* renderer returns null, an element, or throws; the result is             *)
(* [status |-> "null" | "element" | "fault", ...].                         *)

\* obj[a] ?? obj[b] ?? dflt
nullish(obj, a, b, dflt) ==
    IF a \in DOMAIN obj THEN obj[a]
    ELSE IF b \in DOMAIN obj THEN obj[b]
    ELSE dflt

\* `translate(-50%, -50%) ${bounds.rotation ? `rotate(${bounds.rotation}deg)` : ''}`
offerTransform(bounds) ==
    IF "rotation" \in DOMAIN bounds /\ bounds.rotation # 0
    THEN <<"translate(-50%, -50%)", [rotate |-> bounds.rotation]>>
    ELSE <<"translate(-50%, -50%)">>

\* faulty variant: a state without bounds borrows the bounds of Locked
OfferRenderer_fallback(offer, currentState, scale) ==
    IF offer.offerKey = "" \/ "stateBounds" \notin DOMAIN offer
    THEN [status |-> "null"]
    ELSE IF currentState \notin DOMAIN offer.stateBounds /\
            "Locked" \notin DOMAIN offer.stateBounds
    THEN [status |-> "null"]
    ELSE LET bounds == IF currentState \in DOMAIN offer.stateBounds
                       THEN offer.stateBounds[currentState]
                       ELSE offer.stateBounds["Locked"]
         IN  [status   |-> "element",
              offerKey |-> offer.offerKey,
              state    |-> currentState,
              bounds   |-> bounds,
              css      |-> [left      |-> NumMul(bounds.x, scale),
                            top       |-> NumMul(bounds.y, scale),
                            transform |-> offerTransform(bounds),
                            width     |-> NumMul(nullish(bounds, "width", "w", 0), scale),
                            height    |-> NumMul(nullish(bounds, "height", "h", 0), scale)]]

\* faulty variant: the short names w/h win over width/height
OfferRenderer_shortNamesFirst(offer, currentState, scale) ==
    IF offer.offerKey = "" \/ "stateBounds" \notin DOMAIN offer
    THEN [status |-> "null"]
    ELSE IF currentState \notin DOMAIN offer.stateBounds
    THEN [status |-> "null"]
    ELSE LET bounds == offer.stateBounds[currentState]
         IN  [status   |-> "element",
              offerKey |-> offer.offerKey,
              state    |-> currentState,
              bounds   |-> bounds,
              css      |-> [left      |-> NumMul(bounds.x, scale),
                            top       |-> NumMul(bounds.y, scale),
                            transform |-> offerTransform(bounds),
                            width     |-> NumMul(nullish(bounds, "w", "width", 0), scale),
                            height    |-> NumMul(nullish(bounds, "h", "height", 0), scale)]]

OfferRenderer(offer, currentState, scale) ==
    IF offer.offerKey = "" \/ "stateBounds" \notin DOMAIN offer
    THEN [status |-> "null"]
    ELSE IF currentState \notin DOMAIN offer.stateBounds
    THEN [status |-> "null"]
    ELSE LET bounds == offer.stateBounds[currentState]
         IN  [status   |-> "element",
              offerKey |-> offer.offerKey,
              state    |-> currentState,
              bounds   |-> bounds,
              css      |-> [left      |-> NumMul(bounds.x, scale),
                            top       |-> NumMul(bounds.y, scale),
                            transform |-> offerTransform(bounds),
                            width     |-> NumMul(nullish(bounds, "width", "w", 0), scale),
                            height    |-> NumMul(nullish(bounds, "height", "h", 0), scale)]]

\* ButtonRenderer up to the style selection and the position variables;
\* button.stateStyles[currentState] throws when stateStyles is undefined
ButtonRenderer(button, currentState, scale) ==
    IF "stateStyles" \notin DOMAIN button THEN [status |-> "fault"]
    ELSE IF currentState \notin DOMAIN button.stateStyles THEN [status |-> "null"]
    ELSE [status     |-> "element",
          offerKey   |-> button.offerKey,
          state      |-> currentState,
          stateStyle |-> button.stateStyles[currentState],
          disabled   |-> currentState = "disabled",
          css        |-> [left      |-> NumMul(button.position.x, scale),
                          top       |-> NumMul(button.position.y, scale),
                          transform |-> <<"translate(-50%, -50%)">>]]

\* bounds records as exporters write them: long names, short names, both,
\* none, a zero width next to a short name, with and without rotation
BoundsLong == [x |-> 174, y |-> 172, width |-> 271, height |-> 187]

BoundsShort == [x |-> 67, y |-> 52, w |-> 105, h |-> 55]

BoundsBoth ==
    [x |-> 75, y |-> 60, width |-> 110, height |-> 60, w |-> 999, h |-> 999,
     rotation |-> 45]

BoundsNoSize == [x |-> 10, y |-> 20]

BoundsZeroWidth == [x |-> 30, y |-> 40, width |-> 0, w |-> 50, height |-> 8]

BoundsNoRotation == [x |-> 50, y |-> 60, w |-> 7, h |-> 9, rotation |-> 0]

StateBoundsA == [Locked |-> BoundsLong, Unlocked |-> BoundsShort, Claimed |-> BoundsBoth]

StateBoundsB ==
    [Locked |-> BoundsNoSize, Unlocked |-> BoundsZeroWidth, Claimed |-> BoundsNoRotation]

\* offers whose stateBounds has entries for any subset of the states
OfferInputs ==
    {[offerKey |-> "offer1", stateBounds |-> [s \in states |-> sb[s]]] :
        states \in SUBSET OfferState, sb \in {StateBoundsA, StateBoundsB}}

\* buttons whose stateStyles has entries for any subset of the states
ButtonInputs ==
    {[offerKey    |-> "offer1",
      position    |-> [x |-> 174, y |-> 300],
      stateStyles |-> [s \in states |-> [style |-> s]]] :
        states \in SUBSET ButtonState}

ScaleInputs == {Zero, NumDiv(1, 2), fromInt(1), fromInt(2), NumDiv(29, 7)}

ElementInit ==
    /\ impl = "none"
    /\ chainOfferData = SampleData
    /\ componentState = Hook_initialState(chainOfferData)
    /\ rendered = componentState
    /\ isMounted = TRUE
    /\ timers = <<>>
    /\ clickLog = <<>>
    /\ callbackLog = <<>>
    /\ state = Provider_initialState(chainOfferData)
    /\ lastOp = Op("mount", NoKey)
    /\ \/ \E offer \in OfferInputs, s \in OfferState, scale \in ScaleInputs :
             layout = [component |-> "offer", props |-> offer, currentState |-> s,
                       scale |-> scale, output |-> [status |-> "pending"]]
       \/ \E button \in ButtonInputs, s \in ButtonState :
             layout = [component |-> "button", props |-> button, currentState |-> s,
                       scale |-> fromInt(1), output |-> [status |-> "pending"]]

renderOffer ==
    /\ layout.component = "offer"
    /\ lastOp.op = "mount"
    /\ layout' = [layout EXCEPT !.output =
                      OfferRenderer(layout.props, layout.currentState, layout.scale)]
    /\ lastOp' = Op("OfferRenderer", layout.props.offerKey)
    /\ UNCHANGED << impl, chainOfferData, state >>
    /\ UNCHANGED hookVars

renderButton ==
    /\ layout.component = "button"
    /\ lastOp.op = "mount"
    /\ layout' = [layout EXCEPT !.output =
                      ButtonRenderer(layout.props, layout.currentState, layout.scale)]
    /\ lastOp' = Op("ButtonRenderer", layout.props.offerKey)
    /\ UNCHANGED << impl, chainOfferData, state >>
    /\ UNCHANGED hookVars

ElementNext == renderOffer \/ renderButton

ElementSpec == ElementInit /\ [][ElementNext]_vars

(* C23: when stateBounds (offer) or stateStyles (button) has no entry for  *)
(* the current state the renderer yields no element and no fault, and an   *)
(* element it does yield carries the bounds or style of the current state, *)
(* never those of another state.                                           *)

C23_MissingEntryRendersNothing ==
    /\ lastOp.op = "OfferRenderer" =>
           IF layout.currentState \in DOMAIN layout.props.stateBounds
           THEN /\ layout.output.status = "element"
                /\ layout.output.bounds = layout.props.stateBounds[layout.currentState]
           ELSE layout.output.status = "null"
    /\ lastOp.op = "ButtonRenderer" =>
           IF layout.currentState \in DOMAIN layout.props.stateStyles
           THEN /\ layout.output.status = "element"
                /\ layout.output.stateStyle = layout.props.stateStyles[layout.currentState]
           ELSE layout.output.status = "null"

C23_Witness ==
    /\ lastOp.op = "OfferRenderer"
    /\ layout.currentState = "Claimed"
    /\ DOMAIN layout.props.stateBounds = {"Locked", "Unlocked"}
    /\ layout.output.status = "null"

(* The style sheet rule of .offer-component: absolutely positioned at      *)
(* (--offer-left, --offer-top) with size --offer-width by --offer-height   *)
(* and transform --offer-transform.  With the default transform-origin     *)
(* (the centre of the box) a leading translate(-50%, -50%) moves the       *)
(* centre of the box onto (left, top), and a rotate that follows it turns  *)
(* the box about that centre.  Without the leading translate the point     *)
(* (left, top) is the top-left corner.                                     *)
offerComponentBox(css) ==
    [anchor   |-> IF Len(css.transform) >= 1 /\
                     css.transform[1] = "translate(-50%, -50%)"
                  THEN "centre" ELSE "top-left",
     x        |-> css.left,
     y        |-> css.top,
     width    |-> css.width,
     height   |-> css.height,
     rotation |-> IF Len(css.transform) >= 2 THEN css.transform[2].rotate ELSE 0,
     present  |-> TRUE]

(* C24: for every bounds record and every scale >= 0 the offer element has *)
(* its centre at (x*scale, y*scale) and size width*scale by height*scale,  *)
(* width/height winning over w/h (a missing size counts as 0); a rotation  *)
(* keeps the centre where it is; with scale 0 the element is present and   *)
(* has size 0.                                                             *)

C24_Times(n, scale) ==
    IF scale = Zero THEN Zero
    ELSE IF scale = fromInt(1) THEN fromInt(n)
    ELSE IF scale = fromInt(2) THEN fromInt(2 * n)
    ELSE IF scale = NumDiv(1, 2) THEN NumDiv(n, 2)
    ELSE NumMul(n, scale)

C24_Width(bounds) ==
    IF "width" \in DOMAIN bounds THEN bounds.width
    ELSE IF "w" \in DOMAIN bounds THEN bounds.w ELSE 0

C24_Height(bounds) ==
    IF "height" \in DOMAIN bounds THEN bounds.height
    ELSE IF "h" \in DOMAIN bounds THEN bounds.h ELSE 0

field(obj, name) == IF name \in DOMAIN obj THEN <<obj[name]>> ELSE <<>>

\* all components, every image named, an icon for default and for claimed
ThemeDocument ==
    [background |-> [exportUrl |-> "background.png"],
     offers     |-> << [offerKey    |-> "offer1",
                        lockedImg   |-> "offer1_locked.png",
                        unlockedImg |-> "offer1_unlocked.png",
                        claimedImg  |-> "offer1_claimed.png"] >>,
     header     |-> [activeImg  |-> "header_active.png",
                     successImg |-> "header_success.png",
                     failImg    |-> "header_fail.png"],
     buttons    |-> << [offerKey |-> "offer1",
                        icons    |-> [default |-> [img |-> "icon_default.png"],
                                      claimed |-> [img |-> "icon_claimed.png"]]] >>]

\* two offers, one image named, no header, no buttons, no background
PlainDocument ==
    [offers |-> << [offerKey |-> "offer1", lockedImg |-> "offer1_locked.png"],
                   [offerKey |-> "offer2"] >>]

\* a background but no offers array
BackgroundOnlyDocument == [background |-> [exportUrl |-> "background.png"]]

ImageFiles ==
    {"background.png", "offer1_locked.png", "offer1_unlocked.png",
     "offer1_claimed.png", "header_active.png", "header_success.png",
     "header_fail.png", "icon_default.png", "icon_claimed.png"}

Archives ==
    [full      : {<<>>, <<ThemeDocument>>, <<PlainDocument>>},
     positions : {<<>>, <<ThemeDocument>>, <<PlainDocument>>, <<BackgroundOnlyDocument>>},
     images    : {{}, {"background.png"}, {"offer1_locked.png", "icon_claimed.png"},
                  ImageFiles}]

\* URL.createObjectURL: a fresh URL for every call; n numbers the
\* extraction and ref the place in the result the URL is made for
createObjectURL(n, ref) == [blob |-> n, ref |-> ref]

\* faulty variant: positions.json is preferred
dataFile_positionsFirst(zip) == IF zip.positions # <<>> THEN zip.positions ELSE zip.full

\* zipContent.file('positions_full.json') ?? zipContent.file('positions.json')
dataFile(zip) == IF zip.full # <<>> THEN zip.full ELSE zip.positions

\* extractImage: undefined without a name or without the file
extractImage(zip, filename, n, ref) ==
    IF filename = <<>> THEN <<>>
    ELSE IF filename[1] \in zip.images THEN <<createObjectURL(n, ref)>>
    ELSE <<>>

OfferImgField == [Locked |-> "lockedImg", Unlocked |-> "unlockedImg", Claimed |-> "claimedImg"]

HeaderImgField == [active |-> "activeImg", success |-> "successImg", fail |-> "failImg"]

\* the states of iconStates: default, disabled and hover only
IconStates == {"default", "disabled", "hover"}

\* images of one offer: only the states whose image was found get a key
offerImagesOf(zip, offer, n) ==
    LET url(s) == extractImage(zip, field(offer, OfferImgField[s]), n,
                               <<"offer", offer.offerKey, s>>)
    IN  [s \in {t \in OfferState : url(t) # <<>>} |-> url(s)[1]]

headerImagesOf(zip, header, n) ==
    LET url(s) == extractImage(zip, field(header, HeaderImgField[s]), n,
                               <<"header", "", s>>)
    IN  [s \in {t \in HeaderState : url(t) # <<>>} |-> url(s)[1]]

buttonIconsOf(zip, button, n) ==
    LET icons  == IF "icons" \in DOMAIN button THEN button.icons ELSE <<>>
        url(s) == IF s \in DOMAIN icons
                  THEN extractImage(zip, field(icons[s], "img"), n,
                                    <<"button", button.offerKey, s>>)
                  ELSE <<>>
    IN  [s \in {t \in IconStates : url(t) # <<>>} |-> url(s)[1]]

values(f) == {f[x] : x \in DOMAIN f}

offerOf(data, k) == CHOOSE o \in values(data.offers) : o.offerKey = k

buttonOf(data, k) == CHOOSE b \in values(data.buttons) : b.offerKey = k

\* extractChainOfferZip on an archive, as the n-th extraction.  The result
\* is [ok |-> FALSE] when it rejects; created holds the URLs it made.
\* chainOfferData.offers.map throws when the document has no offers array,
\* after the background image has been extracted.
extractChainOfferZip_archive(zip, n) ==
    IF dataFile(zip) = <<>> THEN [ok |-> FALSE, created |-> {}]
    ELSE
    LET data == dataFile(zip)[1]
        backgroundImage ==
            IF "background" \in DOMAIN data
            THEN extractImage(zip, field(data.background, "exportUrl"), n,
                              <<"background", "", "">>)
            ELSE <<>>
    IN  IF "offers" \notin DOMAIN data
        THEN [ok |-> FALSE, created |-> values(backgroundImage)]
        ELSE
        LET offerImages ==
                [k \in {o.offerKey : o \in values(data.offers)} |->
                    offerImagesOf(zip, offerOf(data, k), n)]
            headerImages ==
                IF "header" \in DOMAIN data
                THEN <<headerImagesOf(zip, data.header, n)>>
                ELSE <<>>
            buttonIcons ==
                IF "buttons" \in DOMAIN data
                THEN [k \in {b.offerKey : b \in values(data.buttons)} |->
                         buttonIconsOf(zip, buttonOf(data, k), n)]
                ELSE <<>>
        IN  [ok              |-> TRUE,
             chainOfferData  |-> data,
             backgroundImage |-> backgroundImage,
             offerImages     |-> offerImages,
             headerImages    |-> headerImages,
             buttonIcons     |-> buttonIcons,
             created         |-> values(backgroundImage)
                                 \cup UNION {values(offerImages[k]) : k \in DOMAIN offerImages}
                                 \cup UNION {values(h) : h \in values(headerImages)}
                                 \cup UNION {values(buttonIcons[k]) : k \in DOMAIN buttonIcons}]

\* revokeChainOfferAssets: the URLs it passes to URL.revokeObjectURL
revokeChainOfferAssets(assets) ==
    values(assets.backgroundImage)
    \cup UNION {values(assets.offerImages[k]) : k \in DOMAIN assets.offerImages}
    \cup UNION {values(h) : h \in values(assets.headerImages)}
    \cup UNION {values(assets.buttonIcons[k]) : k \in DOMAIN assets.buttonIcons}

MaxUploads == 2

\* what fetch('/assets/theme.zip') delivers: nothing, or an archive
ThemeResponses ==
    {<<>>,
     <<[full |-> <<ThemeDocument>>, positions |-> <<>>, images |-> ImageFiles]>>,
     <<[full |-> <<>>, positions |-> <<>>, images |-> {"background.png"}]>>}

\* the application after its mount effects, autoLoadTheme in flight:
\* extractedAssets is the displayed asset set, pending the archives whose
\* extraction has not completed, created and revoked the URLs made and
\* released so far, shown the URLs of every asset set that has been
\* displayed, and last the archive and the result of the latest extraction
UploadInit ==
    /\ impl = "none"
    /\ chainOfferData = EmptyData
    /\ componentState = Hook_initialState(chainOfferData)
    /\ rendered = componentState
    /\ isMounted = TRUE
    /\ timers = <<>>
    /\ clickLog = <<>>
    /\ callbackLog = <<>>
    /\ state = Provider_initialState(chainOfferData)
    /\ lastOp = Op("mount", NoKey)
    /\ layout = [extractedAssets |-> <<>>,
                 error    |-> FALSE,
                 isLoading |-> TRUE,
                 autoLoad |-> "pending",
                 mounted  |-> TRUE,
                 pending  |-> {},
                 uploads  |-> 0,
                 blobs    |-> 0,
                 created  |-> {},
                 revoked  |-> {},
                 shown    |-> {},
                 last     |-> <<>>]

UploadCommit(next, name) ==
    /\ layout' = next
    /\ lastOp' = Op(name, NoKey)
    /\ UNCHANGED << impl, chainOfferData, state >>
    /\ UNCHANGED hookVars

\* handleFileUpload up to its await: setError(null), setIsLoading(true),
\* extraction started.  The file input is disabled while isLoading.
handleFileUpload_start(zip) ==
    /\ layout.mounted
    /\ ~layout.isLoading
    /\ layout.uploads < MaxUploads
    /\ zip \notin layout.pending
    /\ UploadCommit([layout EXCEPT !.error = FALSE,
                                   !.isLoading = TRUE,
                                   !.pending = @ \cup {zip},
                                   !.uploads = @ + 1],
                    "handleFileUpload")

\* the cleanup of the asset effect: runs with the asset set it closed over
assetCleanup(extractedAssets) ==
    IF extractedAssets = <<>> THEN {} ELSE revokeChainOfferAssets(extractedAssets[1])

\* autoLoadTheme completes: without a theme.zip it returns; otherwise it
\* extracts and shows the assets; a failure is only logged.  The finally
\* block sets isLoading to false.
autoLoadTheme(response) ==
    /\ layout.autoLoad = "pending"
    /\ IF response = <<>>
       THEN UploadCommit([layout EXCEPT !.autoLoad = "done",
                                        !.isLoading = IF layout.mounted THEN FALSE ELSE @],
                         "autoLoadTheme")
       ELSE LET n      == layout.blobs + 1
                assets == extractChainOfferZip_archive(response[1], n)
                shown  == layout.mounted /\ assets.ok
            IN  UploadCommit(
                    [layout EXCEPT
                        !.autoLoad = "done",
                        !.isLoading = IF layout.mounted THEN FALSE ELSE @,
                        !.blobs   = n,
                        !.created = @ \cup assets.created,
                        !.extractedAssets = IF shown THEN <<assets>> ELSE @,
                        !.shown   = IF shown THEN @ \cup assets.created ELSE @,
                        !.revoked = IF shown
                                    THEN @ \cup assetCleanup(layout.extractedAssets)
                                    ELSE @],
                    "autoLoadTheme")

\* faulty variant: a failed extraction clears the displayed assets
handleFileUpload_resume_clearing(zip) ==
    /\ zip \in layout.pending
    /\ LET n      == layout.blobs + 1
           assets == extractChainOfferZip_archive(zip, n)
           shown  == layout.mounted /\ assets.ok
       IN  UploadCommit(
               [layout EXCEPT
                   !.pending = @ \ {zip},
                   !.blobs   = n,
                   !.created = @ \cup assets.created,
                   !.last    = <<[zip |-> zip, assets |-> assets]>>,
                   !.error   = IF layout.mounted /\ ~assets.ok THEN TRUE ELSE @,
                   !.isLoading = IF layout.mounted THEN FALSE ELSE @,
                   !.extractedAssets = IF shown THEN <<assets>> ELSE <<>>,
                   !.shown   = IF shown THEN @ \cup assets.created ELSE @,
                   !.revoked = @ \cup assetCleanup(layout.extractedAssets)],
               "extractChainOfferZip")

\* the extraction of a pending archive completes and handleFileUpload
\* resumes: setExtractedAssets(assets), or setError in the catch block,
\* then setIsLoading(false) in the finally block.
\* The commit that follows runs the cleanup of the previous asset set.
\* State updates of an unmounted component are dropped.
handleFileUpload_resume(zip) ==
    /\ zip \in layout.pending
    /\ LET n      == layout.blobs + 1
           assets == extractChainOfferZip_archive(zip, n)
           shown  == layout.mounted /\ assets.ok
       IN  UploadCommit(
               [layout EXCEPT
                   !.pending = @ \ {zip},
                   !.blobs   = n,
                   !.created = @ \cup assets.created,
                   !.last    = <<[zip |-> zip, assets |-> assets]>>,
                   !.error   = IF layout.mounted /\ ~assets.ok THEN TRUE ELSE @,
                   !.isLoading = IF layout.mounted THEN FALSE ELSE @,
                   !.extractedAssets = IF shown THEN <<assets>> ELSE @,
                   !.shown   = IF shown THEN @ \cup assets.created ELSE @,
                   !.revoked = IF shown THEN @ \cup assetCleanup(layout.extractedAssets)
                               ELSE @],
               "extractChainOfferZip")

\* the application unmounts: the effect cleanup runs one last time
App_unmount ==
    /\ layout.mounted
    /\ UploadCommit([layout EXCEPT !.mounted = FALSE,
                                   !.revoked = @ \cup assetCleanup(layout.extractedAssets)],
                    "unmount")

UploadNext ==
    \/ \E response \in ThemeResponses : autoLoadTheme(response)
    \/ \E zip \in Archives : handleFileUpload_start(zip)
    \/ \E zip \in Archives : handleFileUpload_resume(zip)
    \/ App_unmount

UploadSpec == UploadInit /\ [][UploadNext]_vars

(* C25: extractChainOfferZip reads the document from positions_full.json   *)
(* when the archive has it, otherwise from positions.json; with neither it *)
(* rejects and returns no assets.                                          *)

C25_PositionsFileChoice ==
    (lastOp.op = "extractChainOfferZip") =>
        LET zip    == layout.last[1].zip
            assets == layout.last[1].assets
        IN  /\ (zip.full # <<>> /\ assets.ok) => assets.chainOfferData = zip.full[1]
            /\ (zip.full = <<>> /\ zip.positions # <<>> /\ assets.ok) =>
                   assets.chainOfferData = zip.positions[1]
            /\ (zip.full # <<>> /\ "offers" \in DOMAIN zip.full[1]) => assets.ok
            /\ (zip.full = <<>> /\ zip.positions = <<>>) =>
                   (/\ ~assets.ok
                    /\ assets.created = {}
                    /\ DOMAIN assets = {"ok", "created"}
                    /\ layout.mounted => layout.error)

C25_Witness ==
    /\ lastOp.op = "extractChainOfferZip"
    /\ layout.last[1].zip.full = <<PlainDocument>>
    /\ layout.last[1].zip.positions = <<ThemeDocument>>
    /\ layout.last[1].assets.ok
    /\ layout.last[1].assets.chainOfferData = PlainDocument

(* C26: an image named by the document but absent from the archive never   *)
(* makes the extraction fail; the result has an entry for every offerKey,  *)
(* and exactly the images that are both named and present have a URL, one  *)
(* createObjectURL call each, the others being undefined.                  *)

\* the images a document names, each with the place of its URL in the result
C26_Named(data) ==
    (IF "background" \in DOMAIN data /\ "exportUrl" \in DOMAIN data.background
     THEN {[ref |-> <<"background", "", "">>, file |-> data.background.exportUrl]}
     ELSE {})
    \cup {[ref |-> <<"offer", o.offerKey, s>>, file |-> o[OfferImgField[s]]] :
            <<o, s>> \in {os \in values(data.offers) \X OfferState :
                            OfferImgField[os[2]] \in DOMAIN os[1]}}
    \cup (IF "header" \in DOMAIN data
          THEN {[ref |-> <<"header", "", s>>, file |-> data.header[HeaderImgField[s]]] :
                  s \in {t \in HeaderState : HeaderImgField[t] \in DOMAIN data.header}}
          ELSE {})
    \cup (IF "buttons" \in DOMAIN data
          THEN {[ref |-> <<"button", b.offerKey, s>>, file |-> b.icons[s].img] :
                  <<b, s>> \in {bs \in values(data.buttons) \X ButtonState :
                                  /\ "icons" \in DOMAIN bs[1]
                                  /\ bs[2] \in DOMAIN bs[1].icons}}
          ELSE {})

\* the URL the result holds at a place, <<>> when undefined
C26_UrlAt(assets, ref) ==
    IF ref[1] = "background" THEN assets.backgroundImage
    ELSE IF ref[1] = "offer"
    THEN IF ref[2] \in DOMAIN assets.offerImages
         THEN field(assets.offerImages[ref[2]], ref[3]) ELSE <<>>
    ELSE IF ref[1] = "header"
    THEN IF assets.headerImages # <<>>
         THEN field(assets.headerImages[1], ref[3]) ELSE <<>>
    ELSE IF ref[2] \in DOMAIN assets.buttonIcons
         THEN field(assets.buttonIcons[ref[2]], ref[3]) ELSE <<>>

C26_MissingImagesTolerated ==
    (/\ lastOp.op = "extractChainOfferZip"
     /\ dataFile(layout.last[1].zip) # <<>>
     /\ "offers" \in DOMAIN dataFile(layout.last[1].zip)[1]) =>
        LET zip     == layout.last[1].zip
            assets  == layout.last[1].assets
            data    == dataFile(zip)[1]
            present == {i \in C26_Named(data) : i.file \in zip.images}
        IN  /\ assets.ok
            /\ DOMAIN assets.offerImages = {o.offerKey : o \in values(data.offers)}
            /\ \A i \in C26_Named(data) :
                   (C26_UrlAt(assets, i.ref) # <<>>) <=> (i \in present)
            /\ Cardinality(assets.created) = Cardinality(present)

\* the same statement without the icons of the states active and claimed
C26_ExtractedKinds ==
    (/\ lastOp.op = "extractChainOfferZip"
     /\ dataFile(layout.last[1].zip) # <<>>
     /\ "offers" \in DOMAIN dataFile(layout.last[1].zip)[1]) =>
        LET zip     == layout.last[1].zip
            assets  == layout.last[1].assets
            data    == dataFile(zip)[1]
            named   == {i \in C26_Named(data) :
                           i.ref[1] = "button" => i.ref[3] \in IconStates}
            present == {i \in named : i.file \in zip.images}
        IN  /\ assets.ok
            /\ DOMAIN assets.offerImages = {o.offerKey : o \in values(data.offers)}
            /\ \A i \in named : (C26_UrlAt(assets, i.ref) # <<>>) <=> (i \in present)
            /\ Cardinality(assets.created) = Cardinality(present)

(* C27: every object URL an extraction creates is revoked once its asset   *)
(* set is not the displayed one (replaced by a later successful            *)
(* extraction, or the application unmounted), and no URL of the displayed  *)
(* asset set is revoked while it is displayed.                             *)

C27_Displayed ==
    IF layout.mounted /\ layout.extractedAssets # <<>>
    THEN layout.extractedAssets[1].created
    ELSE {}

C27_UrlLifetime ==
    /\ layout.created \ C27_Displayed \subseteq layout.revoked
    /\ C27_Displayed \cap layout.revoked = {}

\* the same statement for the URLs of asset sets that were displayed
C27_DisplayedSetsReleased ==
    /\ layout.shown \ C27_Displayed \subseteq layout.revoked
    /\ C27_Displayed \cap layout.revoked = {}

(* C28: in the viewer, button states sync with offers: after an offer has  *)
(* been clicked, the button with the same offerKey is in the state that    *)
(* goes with the offer's new state (Locked: disabled, Unlocked: default,   *)
(* Claimed: claimed).                                                      *)

C28_Correlated == [Locked |-> "disabled", Unlocked |-> "default", Claimed |-> "claimed"]

C28_ButtonsSyncWithOffers ==
    (/\ lastOp.op = "cycleOfferState"
     /\ lastOp.key \in DOMAIN offerStates
     /\ lastOp.key \in DOMAIN buttonStates) =>
        buttonStates[lastOp.key] = C28_Correlated[offerStates[lastOp.key]]

(* --------------------------------------------------------------------- *)
(* Click feedback: several clicks within the feedback delay, explicit     *)
(* button writes between a click and the expiry of its timer.             *)
(* --------------------------------------------------------------------- *)

MaxFeedbackClicks == 2

FeedbackInit == ViewerInit

\* handleButtonClick(k, onButtonClick) with a callback that leaves the
\* button alone
Feedback_handleButtonClick(k) ==
    /\ HookLive
    /\ Len(clickLog) < MaxFeedbackClicks
    /\ HookCommit(Hook_handleButtonClick(componentState, k), "handleButtonClick", k)
    /\ timers' = Append(timers, k)
    /\ clickLog' = Append(clickLog, k)
    /\ callbackLog' = Append(callbackLog, k)

\* handleButtonClick(k, () => setButtonState(k, s)): the write of the
\* callback is queued after the write of 'active' and wins at the commit
Feedback_handleButtonClick_setting(k, s) ==
    /\ HookLive
    /\ Len(clickLog) < MaxFeedbackClicks
    /\ HookCommit(Hook_setButtonState(Hook_handleButtonClick(componentState, k), k, s),
                  "handleButtonClick", k)
    /\ timers' = Append(timers, k)
    /\ clickLog' = Append(clickLog, k)
    /\ callbackLog' = Append(callbackLog, k)

FeedbackNext ==
    \/ \E k \in buttonKeysOf(chainOfferData) : Feedback_handleButtonClick(k)
    \/ \E k \in buttonKeysOf(chainOfferData), s \in {"claimed", "disabled"} :
           Feedback_handleButtonClick_setting(k, s)
    \/ \E k \in buttonKeysOf(chainOfferData), s \in ButtonState : setButtonState_hook(k, s)
    \/ TimerFire
    \/ Unmount

FeedbackSpec == FeedbackInit /\ [][FeedbackNext]_vars

(* C29: the deferred revert of a click changes a button only from active   *)
(* to default: a state set explicitly between the click and the expiry of  *)
(* its timer (setButtonState, also from inside the click callback) is      *)
(* still in place after the timer has fired.                               *)

C29_RevertOnlyFromActive ==
    [][(/\ lastOp'.op = "timer"
        /\ lastOp'.key \in DOMAIN buttonStates
        /\ buttonStates[lastOp'.key] # "active") =>
           (/\ lastOp'.key \in DOMAIN buttonStates'
            /\ buttonStates'[lastOp'.key] = buttonStates[lastOp'.key])]_vars

(* C30: when a button is clicked twice within the feedback delay it stays  *)
(* active until the delay of the second click has elapsed: the timer of    *)
(* the first click does not set it to default while the timer of the       *)
(* second click is pending.                                                *)

C30_OtherTimerPending(k) == \E i \in DOMAIN timers' : timers'[i] = k

C30_ActiveUntilLastTimer ==
    [][(/\ lastOp'.op = "timer"
        /\ lastOp'.key \in DOMAIN buttonStates
        /\ buttonStates[lastOp'.key] = "active"
        /\ C30_OtherTimerPending(lastOp'.key)) =>
           buttonStates'[lastOp'.key] = "active"]_vars

(* --------------------------------------------------------------------- *)
(* Several hook calls before the next re-render: the callbacks keep the   *)
(* componentState of the render that created them until React re-renders. *)
(* layout counts the cycle calls made so far, modulo the cycle length.    *)
(* --------------------------------------------------------------------- *)

BatchInit ==
    /\ impl = "hook"
    /\ chainOfferData = ViewerData
    /\ componentState = Hook_initialState(chainOfferData)
    /\ rendered = componentState
    /\ isMounted = TRUE
    /\ timers = <<>>
    /\ clickLog = <<>>
    /\ callbackLog = <<>>
    /\ state = Provider_initialState(chainOfferData)
    /\ lastOp = Op("mount", NoKey)
    /\ layout = [offerCalls  |-> [k \in offerKeysOf(chainOfferData) |-> 0],
                 headerCalls |-> 0]

\* a call whose state update is queued; the re-render comes later
BatchCall(next, name, key, calls) ==
    /\ HookLive
    /\ componentState' = next
    /\ layout' = calls
    /\ lastOp' = Op(name, key)
    /\ UNCHANGED << rendered, impl, chainOfferData, isMounted, state,
                    timers, clickLog, callbackLog >>

Batch_cycleOfferState(k) ==
    BatchCall(Hook_cycleOfferState(componentState, rendered, k), "cycleOfferState", k,
              [layout EXCEPT !.offerCalls[k] = (@ + 1) % Len(OFFER_STATE_ORDER)])

Batch_cycleHeaderState ==
    BatchCall(Hook_cycleHeaderState(componentState, rendered), "cycleHeaderState", NoKey,
              [layout EXCEPT !.headerCalls = (@ + 1) % Len(HEADER_STATE_ORDER)])

\* React re-renders: the callbacks are recreated over the committed state
Rerender ==
    /\ HookLive
    /\ rendered # componentState
    /\ rendered' = componentState
    /\ lastOp' = Op("render", NoKey)
    /\ UNCHANGED << layout, impl, chainOfferData, componentState, isMounted, state,
                    timers, clickLog, callbackLog >>

BatchNext ==
    \/ \E k \in offerKeysOf(chainOfferData) : Batch_cycleOfferState(k)
    \/ Batch_cycleHeaderState
    \/ Rerender

BatchSpec == BatchInit /\ [][BatchNext]_vars

(* C31: in useChainOfferState no cycle call is lost: n calls of            *)
(* cycleOfferState(k), or of cycleHeaderState, advance the state by        *)
(* exactly n steps of the cycle, also when several calls are made before   *)
(* the next re-render.                                                     *)

C31_NoCycleCallLost ==
    /\ \A k \in DOMAIN layout.offerCalls :
           /\ k \in DOMAIN offerStates
           /\ offerStates[k] = at(OFFER_STATE_ORDER, layout.offerCalls[k])
    /\ headerState = at(HEADER_STATE_ORDER, layout.headerCalls)

(* C32: under any sequence of pointer events (enter, leave, down, up in    *)
(* the provider; enter, leave, click in the hook) a button that is         *)
(* disabled or claimed keeps that state; it leaves it only through         *)
(* setButtonState, the offer-cycle coupling or resetAllStates.             *)

C32_PointerEvents ==
    {"handleButtonMouseEnter", "handleButtonMouseLeave", "handleButtonMouseDown",
     "handleButtonMouseUp", "handleButtonClick"}

C32_InertStatesKept ==
    [][(lastOp'.op \in C32_PointerEvents) =>
           \A k \in DOMAIN buttonStates :
               (buttonStates[k] \in {"disabled", "claimed"}) =>
                   (/\ k \in DOMAIN buttonStates'
                    /\ buttonStates'[k] = buttonStates[k])]_vars

(* C33: in ChainOfferProvider handleButtonMouseDown(k) changes button k to *)
(* active exactly when its state is default or hover, and                  *)
(* handleButtonMouseUp(k) changes it to hover exactly when its state is    *)
(* active; in every other state each leaves the state unchanged.           *)

C33_AfterDown(s) == IF s \in {"default", "hover"} THEN "active" ELSE s

C33_AfterUp(s) == IF s = "active" THEN "hover" ELSE s

C33_DownUpTransitions ==
    [][(/\ impl = "provider"
        /\ lastOp'.op \in {"handleButtonMouseDown", "handleButtonMouseUp"}
        /\ lastOp'.key \in DOMAIN state.buttonStates) =>
           LET k      == lastOp'.key
               before == state.buttonStates[k]
               after  == IF lastOp'.op = "handleButtonMouseDown"
                         THEN C33_AfterDown(before) ELSE C33_AfterUp(before)
           IN  /\ DOMAIN state'.buttonStates = DOMAIN state.buttonStates
               /\ state'.buttonStates[k] = after
               /\ after = before => state' = state]_vars

C33_Witness ==
    /\ impl = "provider"
    /\ lastOp = Op("handleButtonMouseUp", "offer1")
    /\ "offer1" \in DOMAIN state.buttonStates
    /\ state.buttonStates["offer1"] = "hover"

(* C34: the decoupled primitives touch only their own entry:               *)
(* setOfferState(k, s) leaves every other offer, the header and all        *)
(* buttons unchanged; setButtonState(k, s) leaves every other button, all  *)
(* offers and the header unchanged; setHeaderState and cycleHeaderState    *)
(* leave both maps unchanged.                                              *)

C34_OthersKept(before, after, k) ==
    \A j \in DOMAIN before : j # k => (j \in DOMAIN after /\ after[j] = before[j])

C34_FrameOfPrimitives ==
    [][/\ (lastOp'.op = "setOfferState") =>
              /\ C34_OthersKept(offerStates, offerStates', lastOp'.key)
              /\ headerState' = headerState
              /\ buttonStates' = buttonStates
       /\ (lastOp'.op = "setButtonState") =>
              /\ C34_OthersKept(buttonStates, buttonStates', lastOp'.key)
              /\ headerState' = headerState
              /\ offerStates' = offerStates
       /\ (lastOp'.op \in {"setHeaderState", "cycleHeaderState"}) =>
              /\ offerStates' = offerStates
              /\ buttonStates' = buttonStates]_vars

C34_Witness ==
    /\ lastOp = Op("setOfferState", "ghost")
    /\ "offer1" \in DOMAIN offerStates
    /\ offerStates["offer1"] = "Claimed"
    /\ "offer1" \in DOMAIN buttonStates
    /\ buttonStates["offer1"] = "hover"
    /\ headerState = "fail"

(* --------------------------------------------------------------------- *)
(* The demo application remounting the viewer.  The viewer is keyed by    *)
(* the animation type, the replay counter and the parameters of the       *)
(* current type; a new key unmounts the instance and mounts a fresh one.  *)
(* The hook variables hold the mounted instance; layout.old holds the     *)
(* unmounted instances with the timers they left pending.                 *)
(* --------------------------------------------------------------------- *)

MaxRemounts == 1

AnimationTypes == {"spring-physics", "none"}

\* values of the durationScale slider
DurationScales == {1, 2}

\* faulty variant: the replay counter is not part of the key
viewerKey_noReplay(app) == <<app.animationType, app.parameters[app.animationType]>>

\* `${animationType}-${replayTrigger}-${JSON.stringify(parameters)}` with
\* parameters = getParameters(animationType); JSON.stringify is one-to-one
\* on records of finite numbers
viewerKey(app) ==
    <<app.animationType, app.replayTrigger, app.parameters[app.animationType]>>

RemountInit ==
    /\ impl = "hook"
    /\ chainOfferData = SampleData
    /\ componentState = Hook_initialState(chainOfferData)
    /\ rendered = componentState
    /\ isMounted = TRUE
    /\ timers = <<>>
    /\ clickLog = <<>>
    /\ callbackLog = <<>>
    /\ state = Provider_initialState(chainOfferData)
    /\ lastOp = Op("mount", NoKey)
    /\ layout = [animationType |-> "spring-physics",
                 replayTrigger |-> 0,
                 parameters    |-> [t \in AnimationTypes |-> 1],
                 old           |-> <<>>]

\* the application re-renders with new state: the same key keeps the
\* instance, a new key runs the effect cleanup of the old instance
\* (isMounted.current = false there) and the useState initializer of a new one
AppRerender(app, name) ==
    /\ impl = "hook"
    /\ Len(layout.old) < MaxRemounts
    /\ lastOp' = Op(name, NoKey)
    /\ IF viewerKey(app) = viewerKey(layout)
       THEN /\ layout' = app
            /\ UNCHANGED << componentState, rendered, isMounted, timers >>
       ELSE /\ layout' = [app EXCEPT !.old =
                             Append(@, [componentState |-> componentState,
                                        isMounted      |-> FALSE,
                                        timers         |-> timers])]
            /\ componentState' = Hook_initialState(chainOfferData)
            /\ rendered' = componentState'
            /\ isMounted' = TRUE
            /\ timers' = <<>>
    /\ UNCHANGED << impl, chainOfferData, state, clickLog, callbackLog >>

setAnimationType(t) ==
    /\ t # layout.animationType
    /\ AppRerender([layout EXCEPT !.animationType = t], "setAnimationType")

updateParameter(v) ==
    /\ v # layout.parameters[layout.animationType]
    /\ AppRerender([layout EXCEPT !.parameters[layout.animationType] = v],
                   "updateParameter")

handleReplay ==
    AppRerender([layout EXCEPT !.replayTrigger = @ + 1], "handleReplay")

\* a timeout of an unmounted instance expires: its callback reads the
\* isMounted ref and calls the state setter of that instance
StaleTimerFire(i) ==
    /\ i \in DOMAIN layout.old
    /\ layout.old[i].timers # <<>>
    /\ LET inst == layout.old[i]
           k    == Head(inst.timers)
       IN  layout' = [layout EXCEPT !.old[i] =
                         [componentState |-> Hook_timerCallback(inst.componentState,
                                                                inst.isMounted, k),
                          isMounted      |-> inst.isMounted,
                          timers         |-> Tail(inst.timers)]]
    /\ lastOp' = Op("staleTimer", NoKey)
    /\ UNCHANGED << impl, chainOfferData, state >>
    /\ UNCHANGED hookVars

RemountNext ==
    \/ \E t \in AnimationTypes : setAnimationType(t)
    \/ \E v \in DurationScales : updateParameter(v)
    \/ handleReplay
    \/ \E i \in 1..MaxRemounts : StaleTimerFire(i)
    \/ \E k \in offerKeysOf(chainOfferData) : cycleOfferState_hook(k)
    \/ cycleHeaderState_hook
    \/ \E k \in buttonKeysOf(chainOfferData) : handleButtonMouseEnter_hook(k)
    \/ \E k \in buttonKeysOf(chainOfferData) : handleButtonClick(k)
    \/ TimerFire

RemountSpec == RemountInit /\ [][RemountNext]_vars

(* C35: changing the animation type or an animation parameter, or          *)
(* pressing replay, remounts the viewer and discards the runtime state:    *)
(* afterwards every offer is Locked, the header active and every button    *)
(* default, and a feedback timer pending from the previous instance        *)
(* writes nothing into the new instance.                                   *)

C35_Fresh ==
    /\ DOMAIN offerStates = {"offer1"}
    /\ \A k \in DOMAIN offerStates : offerStates[k] = "Locked"
    /\ headerState = "active"
    /\ DOMAIN buttonStates = {"offer1"}
    /\ \A k \in DOMAIN buttonStates : buttonStates[k] = "default"

C35_RemountDiscardsState ==
    [][/\ (lastOp'.op \in {"setAnimationType", "updateParameter", "handleReplay"}) =>
              C35_Fresh'
       /\ (lastOp'.op = "staleTimer") => componentState' = componentState]_vars

C35_Witness ==
    /\ lastOp.op = "staleTimer"
    /\ Len(layout.old) = 1
    /\ layout.old[1].componentState.offerStates["offer1"] = "Claimed"
    /\ layout.old[1].componentState.buttonStates["offer1"] = "active"
    /\ layout.old[1].timers = <<>>
    /\ layout.replayTrigger = 1
    /\ C35_Fresh

(* C36: a failed upload leaves the displayed assets and document           *)
(* unchanged, sets the error and ends with isLoading false; a later        *)
(* successful upload clears the error and replaces the assets; isLoading   *)
(* is false whenever no extraction is in progress.                         *)

C36_UploadOutcome ==
    [][/\ (lastOp'.op = "extractChainOfferZip" /\ layout.mounted) =>
              LET assets == layout'.last[1].assets
              IN  /\ ~layout'.isLoading
                  /\ ~assets.ok =>
                         /\ layout'.extractedAssets = layout.extractedAssets
                         /\ layout'.error
                  /\ assets.ok =>
                         /\ layout'.extractedAssets = <<assets>>
                         /\ ~layout'.error
       /\ (layout'.mounted /\ layout'.pending = {} /\ layout'.autoLoad = "done") =>
              ~layout'.isLoading]_vars

C36_Witness ==
    /\ lastOp.op = "extractChainOfferZip"
    /\ layout.mounted
    /\ ~layout.last[1].assets.ok
    /\ layout.extractedAssets # <<>>
    /\ layout.extractedAssets[1].chainOfferData = PlainDocument
    /\ layout.error
    /\ ~layout.isLoading

\* the icon the viewer hands to ButtonRenderer:
\* assets.buttonIcons?.[button.offerKey]?.[currentState]
iconUrl(assets, offerKey, currentState) ==
    IF offerKey \in DOMAIN assets.buttonIcons
    THEN field(assets.buttonIcons[offerKey], currentState)
    ELSE <<>>

(* C37: for every button of the document and every ButtonState whose icon  *)
(* image is named in the document and present in the archive, the          *)
(* extracted buttonIcons hold a URL for that button and state, so that the *)
(* viewer shows the icon when the button is in that state.                 *)

C37_EveryStateIconExtracted ==
    (/\ lastOp.op = "extractChainOfferZip"
     /\ layout.last[1].assets.ok
     /\ "buttons" \in DOMAIN layout.last[1].assets.chainOfferData) =>
        LET zip    == layout.last[1].zip
            assets == layout.last[1].assets
        IN  \A b \in values(assets.chainOfferData.buttons), s \in ButtonState :
                (/\ "icons" \in DOMAIN b
                 /\ s \in DOMAIN b.icons
                 /\ b.icons[s].img \in zip.images) =>
                    iconUrl(assets, b.offerKey, s) # <<>>


\* ---------------------------------------------------------------------
\* convertFillToCSS (layout utilities): a Fill turned into a CSS value
\* ---------------------------------------------------------------------

\* the natural number written by binary digits, most significant first
RECURSIVE BitsToInt(_)
BitsToInt(bits) ==
    IF bits = <<>> THEN 0
    ELSE 2 * BitsToInt(SubSeq(bits, 1, Len(bits) - 1)) + bits[Len(bits)]

\* Number.prototype.toFixed(1) of a Number x >= 0: the integer n for which
\* n / 10 is nearest to the exact value of x, the larger one on a tie; the
\* string produced is the decimal n \div 10 "." n % 10
toFixed1(x) ==
    IF x.sign = 0 THEN 0
    ELSE LET p    == MulBits(10, x.man, 0, <<>>)
             frac == (MantissaBits - 1) - x.exp
             int  == Len(p) - frac
         IN  IF int < 0 THEN 0
             ELSE IF int >= Len(p) THEN BitsToInt(p) * Pow2(int - Len(p))
             ELSE BitsToInt(SubSeq(p, 1, int)) + p[int + 1]

\* a CSS keyword or colour
CSSValue(v) == [fn |-> "none", value |-> v, angle |-> 0, stops |-> <<>>]

\* linear-gradient(<angle>deg, <stops>)
LinearGradient(angle, stops) ==
    [fn |-> "linear-gradient", value |-> "", angle |-> angle, stops |-> stops]

\* "<color> <percent>%" of one gradient stop
StopCSS(stop) ==
    [color |-> stop.color, percent |-> toFixed1(NumMul(100, stop.position))]

\* faulty variant: every gradient kind is rendered as a linear gradient
convertFillToCSS_anyKind(fill) ==
    IF fill = <<>> THEN CSSValue("transparent")
    ELSE LET f == fill[1]
         IN  IF f.type = "solid"
             THEN IF f.color = <<>> \/ f.color = <<"">>
                  THEN CSSValue("transparent")
                  ELSE CSSValue(f.color[1])
             ELSE IF f.type = "gradient" /\ f.gradient # <<>>
             THEN LET gradient == f.gradient[1]
                      stops == [i \in 1..Len(gradient.stops) |->
                                    StopCSS(gradient.stops[i])]
                      angle == IF gradient.rotation = <<>> THEN 0
                               ELSE gradient.rotation[1]
                  IN  LinearGradient(angle, stops)
             ELSE CSSValue("transparent")

\* fill is <<>> for an absent fill, <<f>> otherwise; optional fields of f
\* and of its gradient are <<>> when absent
convertFillToCSS(fill) ==
    IF fill = <<>> THEN CSSValue("transparent")
    ELSE LET f == fill[1]
         IN  IF f.type = "solid"
             THEN IF f.color = <<>> \/ f.color = <<"">>
                  THEN CSSValue("transparent")
                  ELSE CSSValue(f.color[1])
             ELSE IF f.type = "gradient" /\ f.gradient # <<>>
             THEN LET gradient == f.gradient[1]
                      stops == [i \in 1..Len(gradient.stops) |->
                                    StopCSS(gradient.stops[i])]
                  IN  IF gradient.type = "linear"
                      THEN LET angle == IF gradient.rotation = <<>> THEN 0
                                        ELSE gradient.rotation[1]
                           IN  LinearGradient(angle, stops)
                      ELSE CSSValue("transparent")
             ELSE CSSValue("transparent")

\* stop positions as written in a theme file: num / den
StopPositions ==
    { [num |-> 0, den |-> 1], [num |-> 1, den |-> 3],
      [num |-> 93, den |-> 100], [num |-> 1, den |-> 1] }

StopColors == {"#ff0000", "#0000ff"}

GradientStops ==
    { [color |-> c, position |-> NumDiv(q.num, q.den)] :
          c \in StopColors, q \in StopPositions }

StopLists ==
    {<<>>} \cup { <<s>> : s \in GradientStops }
           \cup { <<s, t>> : s \in GradientStops, t \in GradientStops }

Gradients ==
    { [type |-> t, stops |-> ss, rotation |-> r] :
          t \in {"linear", "radial", "angular"},
          ss \in StopLists,
          r \in {<<>>, <<0>>, <<90>>} }

Fills ==
    {<<>>}
    \cup { <<[type |-> "solid", color |-> c, gradient |-> <<>>]>> :
               c \in {<<>>, <<"">>} \cup { <<v>> : v \in StopColors } }
    \cup { <<[type |-> "gradient", color |-> <<>>, gradient |-> g]>> :
               g \in {<<>>} \cup { <<x>> : x \in Gradients } }

FillInit ==
    /\ impl = "none"
    /\ chainOfferData = SampleData
    /\ componentState = Hook_initialState(chainOfferData)
    /\ rendered = componentState
    /\ isMounted = TRUE
    /\ timers = <<>>
    /\ clickLog = <<>>
    /\ callbackLog = <<>>
    /\ state = Provider_initialState(chainOfferData)
    /\ lastOp = Op("mount", NoKey)
    /\ \E fill \in Fills : layout = [fill |-> fill, css |-> <<>>]

convertFill ==
    /\ lastOp.op = "mount"
    /\ layout' = [layout EXCEPT !.css = <<convertFillToCSS(layout.fill)>>]
    /\ lastOp' = Op("convertFillToCSS", NoKey)
    /\ UNCHANGED << impl, chainOfferData, state >>
    /\ UNCHANGED hookVars

FillNext == convertFill

FillSpec == FillInit /\ [][FillNext]_vars

\* the percentage, in tenths, of the position num / den rounded to one
\* decimal
C38_Tenths(q) == (2000 * q.num + q.den) \div (2 * q.den)

\* the stop of the result is the given stop: its colour, and its position
\* as a percentage with one decimal
C38_StopKept(given, css) ==
    /\ css.color = given.color
    /\ \E q \in StopPositions :
           /\ given.position = NumDiv(q.num, q.den)
           /\ css.percent = C38_Tenths(q)

====
